---- MODULE Spec2Model ----
(***************************************************************************)
(* A model of the E57 binary decoder of cdyk/e57parser:                    *)
(*   - the paging layer and the file open   (src/src/e57File.cpp)          *)
(*   - the packet layer, the bit unpacker and the multi-stream coordinator *)
(*     (src/unnamed/part_003, the compressed-vector reader)                *)
(*                                                                         *)
(* Four specifications share the module's variables; each one keeps the    *)
(* variables of the others at their idle value:                            *)
(*   SpecOpen   openE57 on a file whose header fields are drawn freely     *)
(*   SpecBytes  readE57Bytes / calculateSectionPhysicalEnd on an open file *)
(*   SpecBits   consumeBits on one byte stream, bit by bit                 *)
(*   SpecPoints readE57Points: getPacket, readPointsIteration, readPoints  *)
(*                                                                         *)
(* uint64_t / size_t values are kept as integers.  A value that wrapped    *)
(* below zero (page.logicalSize = pageSize - 4 for pageSize < 4) is kept   *)
(* as its negative representative v, standing for 2^64 + v; ULe, ULt and   *)
(* UMin compare such representatives as the unsigned values they stand for.*)
(***************************************************************************)
EXTENDS Integers, Sequences, FiniteSets, TLC

VARIABLES
    file,            \* the bytes on disk, as the decoder can observe them
    e57,             \* the E57File handle
    proc,            \* "running", or "crashed" once undefined behaviour ended the process
    rd,              \* the last API call of the paging layer / open and what it did
    physicalOffset,  \* the caller's in-out physical offset (readE57Bytes)
    chain,           \* the run of successful readE57Bytes calls since the offset was set
    bits,            \* SpecBits: the byte stream, the component and the unpack state
    pts              \* SpecPoints: the state of one readE57Points call

vars == <<file, e57, proc, rd, physicalOffset, chain, bits, pts>>

-----------------------------------------------------------------------------
(* Bounds of the model *)

\* page sizes of open files are 2^3 .. 2^MaxPageShift
MaxPageShift == 4
\* the file holds pages 0 .. NumPages-1
NumPages == 3
\* readE57Bytes is called with 0 .. MaxRead bytes
MaxRead == 6
\* header field xmlLogicalLength is drawn from 0 .. MaxXmlLength
MaxXmlLength == 5
\* sectionLogicalLength is drawn from 0 .. MaxSectionLength
MaxSectionLength == 6
\* SpecBits: a byte stream holds 0 .. MaxStreamBytes bytes
MaxStreamBytes == 16
\* SpecBits: a batch asks for at most MaxBatch items
MaxBatch == 2
\* SpecBits: the stream contents are the patterns 0 .. MaxPattern
MaxPattern == 2
\* SpecBits: a stream is followed for at most MaxDecoded items
MaxDecoded == 4
\* header field xmlPhysicalOffset is drawn from 0 .. MaxXmlOffset
MaxXmlOffset == 9
\* the Reader fails at its 1st .. MaxReaderCalls-th read of an operation, or never
MaxReaderCalls == 3

(* Program constants *)

\* const size_t headerSize = 8 + 2 * 4 + 4 * 8
HeaderSize == 48
\* sizeof(uint32_t): the CRC that ends every page
CrcSize == 4
\* the smallest page shift an open file can have (pageSize 8, see ReadyPageSizes)
MinPageShift == 3
\* constexpr uint32_t AllBitsRead = ~uint32_t(0), as its representative
AllBitsRead == -1
\* the bits of a uint64_t
WordBits == 64
\* uint8_t bitWidth of an Integer / ScaledInteger component: at most 63,
\* the mask is (uint64_t(1) << w) - 1
MaxBitWidth == 63
\* constexpr uint32_t w = 8 * 4 (Float) and 8 * 8 (Double)
FloatBits == 32
DoubleBits == 64

-----------------------------------------------------------------------------
(* Unsigned arithmetic on representatives *)

ULt(a, b) == IF (a < 0) = (b < 0) THEN a < b ELSE b < 0
ULe(a, b) == a = b \/ ULt(a, b)
UMin(a, b) == IF ULt(b, a) THEN b ELSE a

RECURSIVE BitAnd(_, _)
BitAnd(a, b) ==
    IF a = 0 \/ b = 0 THEN 0
    ELSE (a % 2) * (b % 2) + 2 * BitAnd(a \div 2, b \div 2)

ShiftRight(a, s) == a \div (2 ^ s)

RECURSIVE countr_zero(_)
countr_zero(x) == IF x % 2 = 1 THEN 0 ELSE 1 + countr_zero(x \div 2)

Pages == 0 .. (NumPages - 1)

-----------------------------------------------------------------------------
(* The file.  A byte is named by its physical address, so that the bytes a *)
(* read delivers can be told apart.  file.badCrc is the set of pages whose *)
(* stored CRC differs from the CRC-32C of their payload.                   *)

FileBytes == NumPages * (2 ^ MaxPageShift)

NullView == [data |-> -1, size |-> 0]

\* The Reader callback as e57Read sees it: a view of exactly `size` bytes, or
\* the zero-length view.  `failing` are the offsets at which the callback
\* returns a zero-length view at this call (an I/O error or a cancellation);
\* a range that leaves the file is refused as memoryMappedFileCallback does.
fileRead(offset, size, failing) ==
    IF offset \in failing \/ file.size < offset + size
    THEN NullView
    ELSE [data |-> offset, size |-> size]

e57Read(offset, size, failing) ==
    LET rv == fileRead(offset, size, failing)
    IN  IF rv.size # size THEN NullView ELSE rv

\* The page record parseHeader derives from header.pageSize.
PageOf(pageSize) ==
    [size        |-> pageSize,
     logicalSize |-> pageSize - CrcSize,
     mask        |-> pageSize - 1,
     shift       |-> countr_zero(pageSize)]

\* a faulty variant: only a page size of 0 is refused
PageSizeZeroOnly(pageSize) == pageSize = 0

PageSizeRejected(pageSize) ==
    pageSize = 0 \/ BitAnd(pageSize, pageSize - 1) # 0

\* a faulty variant: the stored CRC is not compared
checkPageNoCompare(h, bytes) ==
    IF bytes.size = 0 \/ ULt(bytes.size, h.page.logicalSize)
    THEN "ub"
    ELSE "true"

\* checkPage: the CRC loop reads page.logicalSize bytes of the view and then
\* the 4 bytes of the stored CRC, whatever the size of the view.  "ub" when
\* that reads outside the view (a null view, or a logicalSize that wrapped).
checkPage(h, bytes) ==
    IF bytes.size = 0 \/ ULt(bytes.size, h.page.logicalSize)
    THEN "ub"
    ELSE IF ShiftRight(bytes.data, h.page.shift) \in file.badCrc
         THEN "false"
         ELSE "true"

\* a faulty variant: the copy runs to the end of the page, CRC included
BytesToReadFromPageNoCrc(h, offsetInPage, bytesToRead) ==
    UMin(h.page.size - offsetInPage, bytesToRead)

\* size_t bytesToReadFromPage = std::min(logicalSize - offsetInPage, bytesToRead)
BytesToReadFromPage(h, offsetInPage, bytesToRead) ==
    UMin(h.page.logicalSize - offsetInPage, bytesToRead)

\* The while loop of readE57Bytes.  st holds the loop's variables and what
\* the call did so far: reads (every Reader read: offset and bytes got),
\* checked (pages whose CRC was compared), inspectedEmpty (checkPage read
\* through a zero-length view).  The failAt-th Reader read of the call returns
\* a zero-length view (0: none does).  ub is what the build does on undefined
\* behaviour: the process dies ("crash") or the CRC of the bytes found does
\* not match ("false").
RECURSIVE ReadLoop(_, _, _, _)
ReadLoop(h, st, failAt, ub) ==
    IF st.bytesToRead = 0 THEN [st EXCEPT !.ret = "true"]
    ELSE
      LET failing   == IF Len(st.reads) + 1 = failAt THEN {st.page * h.page.size} ELSE {}
          pageBytes == e57Read(st.page * h.page.size, h.page.size, failing)
          ok  == checkPage(h, pageBytes)
          st1 == [st EXCEPT !.reads = Append(@, [offset |-> st.page * h.page.size,
                                                 got |-> pageBytes.size])]
      IN  IF ok = "ub"
          THEN [st1 EXCEPT !.ret = ub,
                           !.inspectedEmpty = @ \/ pageBytes.size = 0,
                           !.overread = TRUE]
          ELSE IF ok = "false"
          THEN [st1 EXCEPT !.ret = "false", !.checked = Append(@, st.page)]
          ELSE
            LET n == BytesToReadFromPage(h, st.offsetInPage, st.bytesToRead)
            IN  ReadLoop(h,
                  [st1 EXCEPT
                     !.checked = Append(@, st.page),
                     !.dst = @ \o [k \in 1 .. n |-> pageBytes.data + st.offsetInPage + (k - 1)],
                     !.physicalOffset = st.page * h.header.pageSize + st.offsetInPage + n,
                     !.offsetInPage = 0,
                     !.bytesToRead = @ - n,
                     !.page = @ + 1],
                  failAt, ub)

\* a faulty variant: the offset is left on the checksum
BumpNever(h, p) == p

\* If we end reading precisely on the end of a page payload before checksum,
\* bump offset past the checksum.
BumpPastChecksum(h, p) ==
    IF BitAnd(p, h.page.mask) = h.page.logicalSize THEN p + CrcSize ELSE p

\* the end of readE57Bytes, r being what its loop left
readE57BytesEnd(h, r) ==
    IF r.ret = "true"
    THEN [r EXCEPT !.physicalOffset = BumpPastChecksum(h, @)]
    ELSE r

\* a faulty variant: the start offset is not looked at
OutsidePayloadNever(h, offsetInPage) == FALSE

\* e57->page.logicalSize <= offsetInPage
OutsidePayload(h, offsetInPage) == ULe(h.page.logicalSize, offsetInPage)

readE57Bytes(h, offset, bytesToRead, failAt, ub) ==
    LET page         == ShiftRight(offset, h.page.shift)
        offsetInPage == BitAnd(offset, h.page.mask)
        st0 == [ret |-> "none", page |-> page, offsetInPage |-> offsetInPage,
                bytesToRead |-> bytesToRead, physicalOffset |-> offset,
                dst |-> <<>>, reads |-> <<>>, checked |-> <<>>,
                inspectedEmpty |-> FALSE, overread |-> FALSE]
    IN  IF OutsidePayload(h, offsetInPage)
        THEN [st0 EXCEPT !.ret = "false"]
        ELSE readE57BytesEnd(h, ReadLoop(h, st0, failAt, ub))

-----------------------------------------------------------------------------
(* Logical <-> physical conversion of the section locator *)

\* a faulty variant: pages counted with their CRC
LogicalOffsetByPageSize(h, fileOffset) ==
    ShiftRight(fileOffset, h.page.shift) * h.page.size
      + BitAnd(fileOffset, h.page.mask)

\* sectionLogicalOffset of calculateSectionLogicalEnd
LogicalOffset(h, fileOffset) ==
    ShiftRight(fileOffset, h.page.shift) * h.page.logicalSize
      + BitAnd(fileOffset, h.page.mask)

calculateSectionLogicalEnd(h, fileOffset, sectionLogicalLength) ==
    LogicalOffset(h, fileOffset) + sectionLogicalLength

calculateSectionPhysicalEnd(h, fileOffset, sectionLogicalLength) ==
    LET sectionLogicalEnd == calculateSectionLogicalEnd(h, fileOffset, sectionLogicalLength)
    IN  (sectionLogicalEnd \div h.page.logicalSize) * h.page.size
          + (sectionLogicalEnd % h.page.logicalSize)

-----------------------------------------------------------------------------
(* The header decoder and openE57 *)

NewHandle ==
    [ready    |-> FALSE,
     fileRead |-> "null",
     fileSize |-> 0,
     header   |-> [pageSize |-> 0, xmlPhysicalOffset |-> 0, xmlLogicalLength |-> 0],
     page     |-> [size |-> 0, logicalSize |-> 0, mask |-> 0, shift |-> 0],
     points   |-> 0]

NoCall == [op |-> "none"]

\* parseHeader: the 48 header bytes are read through e57Read alone, no page
\* of them is handed to checkPage.  The header fields are stored as they are
\* decoded, before the page size is looked at.
parseHeader(h, failAt) ==
    IF h.fileSize < HeaderSize
    THEN [ret |-> FALSE, e57 |-> h, reads |-> <<>>]
    ELSE
      LET bytes == e57Read(0, HeaderSize, IF failAt = 1 THEN {0} ELSE {})
          reads == <<[offset |-> 0, got |-> bytes.size]>>
      IN  IF bytes.size = 0 THEN [ret |-> FALSE, e57 |-> h, reads |-> reads]
          ELSE IF ~file.sigOk THEN [ret |-> FALSE, e57 |-> h, reads |-> reads]
          ELSE
            LET h1 == [h EXCEPT !.header = file.header]
            IN  IF PageSizeRejected(h1.header.pageSize)
                THEN [ret |-> FALSE, e57 |-> h1, reads |-> reads]
                ELSE [ret |-> TRUE,
                      e57 |-> [h1 EXCEPT !.page = PageOf(h1.header.pageSize)],
                      reads |-> reads]

\* parseE57Xml as openE57 uses it: the XML parser is handed the bytes that
\* were read; a document of no bytes has no root element and is refused.
parseE57Xml(xmlBytes, xmlLength) ==
    xmlLength > 0 /\ file.xmlValid

\* a faulty variant: a handle is never taken as open
AlreadyOpenNever(h) == FALSE

\* if (e57.ready): "E57 file object already open"
AlreadyOpen(h) == h.ready

\* openE57.  ret is "true", "false" or "crash"; parsed is what parseHeader
\* returned (FALSE when it was not called).
openE57(h, reader, fileSize, failAt, ub) ==
    IF AlreadyOpen(h)
    THEN [op |-> "openE57", ret |-> "false", parsed |-> FALSE, e57 |-> h, reads |-> <<>>,
          checked |-> <<>>, inspectedEmpty |-> FALSE, overread |-> FALSE]
    ELSE
      LET h0  == [h EXCEPT !.fileRead = reader, !.fileSize = fileSize]
          hdr == parseHeader(h0, failAt)
      IN  IF ~hdr.ret
          THEN [op |-> "openE57", ret |-> "false", parsed |-> FALSE, e57 |-> hdr.e57,
                reads |-> hdr.reads,
                checked |-> <<>>, inspectedEmpty |-> FALSE, overread |-> FALSE]
          ELSE
            LET h1  == hdr.e57
                xml == readE57Bytes(h1, h1.header.xmlPhysicalOffset,
                                    h1.header.xmlLogicalLength,
                                    IF failAt > 1 THEN failAt - 1 ELSE 0, ub)
                out == [op |-> "openE57", ret |-> xml.ret, parsed |-> TRUE, e57 |-> h1,
                        reads |-> hdr.reads \o xml.reads, checked |-> xml.checked,
                        inspectedEmpty |-> xml.inspectedEmpty, overread |-> xml.overread]
            IN  IF xml.ret # "true" THEN out
                ELSE IF ~parseE57Xml(xml.dst, h1.header.xmlLogicalLength)
                THEN [out EXCEPT !.ret = "false"]
                ELSE [out EXCEPT !.e57 = [h1 EXCEPT !.ready = TRUE, !.points = 1]]

-----------------------------------------------------------------------------
(* The bit unpacker.  A uint64_t of the unpacker is a sequence of 64 bits,  *)
(* least significant bit first, so that every bitWidth up to 63 is kept at  *)
(* its width.  uint32_t bit counts are integers; AllBitsRead, ~uint32_t(0), *)
(* is kept as its representative -1 (ULt compares it as 2^32 - 1).          *)

Bit64 == 1 .. WordBits

\* The bit at bit position i (0-based: byte i \div 8, bit i % 8 of that byte)
\* after the start of a byte stream b.  In SpecBits b is a stream of
\* b.bitsAvailable bits whose contents follow pattern b.pat, and the bytes
\* after it in the packet buffer hold b.tail.  In SpecPoints b is a slice of
\* the packet buffer ctx.packet.data, whose bytes are named by the file
\* address they were read from (0: never written).
StreamBit(b, i) ==
    IF "data" \in DOMAIN b
    THEN LET ix == b.byteStreamOffset + (i \div 8)
         IN  IF ix \in DOMAIN b.data THEN <<b.data[ix], i % 8>> ELSE "outside"
    ELSE IF i >= b.bitsAvailable THEN b.tail
    ELSE IF b.pat = 0 THEN 1
    ELSE IF (i \div b.pat) % 2 = 0 THEN 1 ELSE 0

\* getUint64LEUnaligned(ctx.packet.data + byteStreamOffset + byteOffset):
\* bit j of the little-endian word is bit j of the 8 bytes at byteOffset
getUint64LEUnaligned(b, byteOffset) ==
    [j \in Bit64 |-> StreamBit(b, 8 * byteOffset + (j - 1))]

\* v >> shift on uint64_t
ShiftRight64(v, shift) ==
    [j \in Bit64 |-> IF j + shift <= WordBits THEN v[j + shift] ELSE 0]

\* v & m with m = (uint64_t(1) << w) - 1
MaskLow(v, w) == [j \in Bit64 |-> IF j <= w THEN v[j] ELSE 0]

\* uint64_t bits = (getUint64LEUnaligned(data + byteStreamOffset + byteOffset) >> shift) & m
ExtractBits(b, bitsConsumed, w) ==
    LET byteOffset == ShiftRight(bitsConsumed, 3)
        shift      == BitAnd(bitsConsumed, 7)
    IN  MaskLow(ShiftRight64(getUint64LEUnaligned(b, byteOffset), shift), w)

\* the bytes getFloat32LEUnaligned / getFloat64LEUnaligned load: w bits at byteOffset
LoadBytes(b, byteOffset, w) ==
    [j \in Bit64 |-> IF j <= w THEN StreamBit(b, 8 * byteOffset + (j - 1)) ELSE 0]

\* uint32_t addition on representatives
Add32(a, w) == a + w

BitWidthOf(comp) ==
    CASE comp.type \in {"Integer", "ScaledInteger"} -> comp.bitWidth
      [] comp.type = "Float"  -> FloatBits
      [] comp.type = "Double" -> DoubleBits
      [] OTHER -> 0

\* the value one item decodes to, before the conversion to float:
\*   Integer        comp.integer.min + bits
\*   ScaledInteger  scale * double(comp.integer.min + bits) + offset
\*   Float, Double  the bytes loaded
DecodeItem(b, comp, bitsConsumed) ==
    IF comp.type \in {"Integer", "ScaledInteger"}
    THEN [type |-> comp.type, min |-> comp.min,
          bits |-> ExtractBits(b, bitsConsumed, comp.bitWidth)]
    ELSE [type |-> comp.type, min |-> 0,
          bits |-> LoadBytes(b, ShiftRight(bitsConsumed, 3), BitWidthOf(comp))]

\* the bytes of the packet buffer an item is loaded from: 8 at
\* data + byteStreamOffset + byteOffset for the integer types
\* (getUint64LEUnaligned), 4 or 8 for Float and Double
LoadOf(b, comp, bitsConsumed) ==
    [at   |-> (IF "byteStreamOffset" \in DOMAIN b THEN b.byteStreamOffset ELSE 0)
                + ShiftRight(bitsConsumed, 3),
     size |-> IF comp.type \in {"Integer", "ScaledInteger"} THEN WordBits \div 8
              ELSE BitWidthOf(comp) \div 8]

\* One of the four for-loops of consumeBits (they differ in w and in the
\* decoding of an item): st = [item, bitsConsumed, bitsConsumedNext, out,
\* loads], loads being the loads from the packet buffer made so far.
RECURSIVE ConsumeLoop(_, _, _, _)
ConsumeLoop(b, comp, maxItems, st) ==
    IF ~(st.item < maxItems) THEN st
    ELSE IF ULt(b.bitsAvailable, st.bitsConsumedNext)
    THEN [st EXCEPT !.bitsConsumed = AllBitsRead]
    ELSE ConsumeLoop(b, comp, maxItems,
           [item             |-> st.item + 1,
            bitsConsumed     |-> st.bitsConsumedNext,
            bitsConsumedNext |-> Add32(st.bitsConsumedNext, BitWidthOf(comp)),
            out              |-> [st.out EXCEPT ![st.item] =
                                     DecodeItem(b, comp, st.bitsConsumed)],
            loads            |-> st.loads \cup {LoadOf(b, comp, st.bitsConsumed)}])

ComponentTypes == {"Integer", "ScaledInteger", "Float", "Double"}

\* Component::Type as a Component can hold it
SchemaTypes == ComponentTypes \cup {"None", "Count"}

\* a faulty variant: the position after the next item is returned
unpackStateNewAhead(unpackState, st) ==
    [itemsWritten |-> st.item,
     bitsConsumed |-> st.bitsConsumedNext,
     out          |-> st.out,
     loads        |-> st.loads,
     progress     |-> st.bitsConsumedNext = AllBitsRead
                        \/ st.item # unpackState.itemsWritten]

\* what consumeBits returns, st being what its loop left; progress is the
\* condition readPointsIteration asserts
unpackStateNew(unpackState, st) ==
    [itemsWritten |-> st.item,
     bitsConsumed |-> st.bitsConsumed,
     out          |-> st.out,
     loads        |-> st.loads,
     progress     |-> st.bitsConsumed = AllBitsRead
                        \/ st.item # unpackState.itemsWritten]

\* consumeBits(ctx, unpackState, unpackDesc, writeDesc, comp): the new unpack
\* state, what was written for each item, and whether the "No progress"
\* assertion held.  A component of another type runs none of the loops.
consumeBits(b, unpackState, maxItems, comp, out) ==
    LET st0 == [item             |-> unpackState.itemsWritten,
                bitsConsumed     |-> unpackState.bitsConsumed,
                bitsConsumedNext |-> Add32(unpackState.bitsConsumed, BitWidthOf(comp)),
                out              |-> out,
                loads            |-> {}]
    IN  unpackStateNew(unpackState,
                       IF comp.type \in ComponentTypes
                       THEN ConsumeLoop(b, comp, maxItems, st0)
                       ELSE st0)

-----------------------------------------------------------------------------
(* Inputs *)

\* what the build does when checkPage reads outside the view it was given
UbOutcomes == {"crash", "false"}

\* the Reader read of an operation that returns a zero-length view (0: none)
FailAts == 0 .. MaxReaderCalls

\* header.pageSize as a file can state it: every value up to the smallest
\* accepted page size, and the larger powers of two
HeaderPageSizes == (0 .. 2 ^ MinPageShift) \cup {2 ^ s : s \in MinPageShift .. MaxPageShift}

\* the page sizes of handles on which openE57 succeeded (ReadyPageSize below)
ReadyPageSizes == {2 ^ s : s \in MinPageShift .. MaxPageShift}

Idle == "idle"

-----------------------------------------------------------------------------
(* SpecOpen: openE57 on files whose header is drawn freely *)

InitOpen ==
    /\ file \in [size     : {HeaderSize - 1, FileBytes},
                 sigOk    : BOOLEAN,
                 header   : [pageSize          : HeaderPageSizes,
                             xmlPhysicalOffset : 0 .. MaxXmlOffset,
                             xmlLogicalLength  : 0 .. MaxXmlLength],
                 badCrc   : SUBSET Pages,
                 xmlValid : BOOLEAN]
    /\ e57 = NewHandle
    /\ proc = "running"
    /\ rd = NoCall
    /\ physicalOffset = 0
    /\ chain = Idle
    /\ bits = Idle
    /\ pts = Idle

OpenE57 ==
    /\ proc = "running"
    /\ \E failAt \in FailAts, ub \in UbOutcomes :
         LET r == openE57(e57, "reader", file.size, failAt, ub)
         IN  /\ rd' = [r EXCEPT !.e57 = e57]
             /\ e57' = r.e57
             /\ proc' = IF r.ret = "crash" THEN "crashed" ELSE "running"
    /\ UNCHANGED <<file, physicalOffset, chain, bits, pts>>

NextOpen == OpenE57

SpecOpen == InitOpen /\ [][NextOpen]_vars

\* openE57 succeeds only on page sizes of at least 8: with pageSize 4 no
\* offset lies in a payload, with pageSize 1 or 2 checkPage reads outside the
\* page it was given.
ReadyPageSize == e57.ready => e57.header.pageSize \in ReadyPageSizes

\* openE57 has returned
Opened == rd.op = "openE57"

PowersOfTwo == {2 ^ s : s \in 0 .. MaxPageShift}

\* C14: for every header that parseHeader accepts, pageSize is a power of
\* two, page.shift is its number of trailing zero bits, page.mask is
\* pageSize - 1 and page.logicalSize + 4 is pageSize; a header whose pageSize
\* is 0 or not a power of two is rejected.
C14_PageFieldsConsistent ==
    Opened =>
        /\ rd.parsed =>
              /\ e57.header.pageSize = file.header.pageSize
              /\ e57.header.pageSize \in PowersOfTwo
              /\ 2 ^ e57.page.shift = e57.header.pageSize
              /\ e57.page.mask = e57.header.pageSize - 1
              /\ e57.page.logicalSize + CrcSize = e57.header.pageSize
        /\ file.header.pageSize \notin PowersOfTwo => ~rd.parsed /\ rd.ret = "false"

\* a header with the largest page size was accepted
C14_Witness ==
    /\ Opened
    /\ rd.parsed
    /\ e57.header.pageSize = 2 ^ MaxPageShift
    /\ e57.page.shift = MaxPageShift

\* C15 (as claimed): every header that parseHeader accepts has pageSize >= 8,
\* so that page.logicalSize is a positive number of payload bytes.
C15_AcceptedPageSizeAtLeast8 ==
    (Opened /\ rd.parsed) =>
        /\ e57.header.pageSize >= 2 ^ MinPageShift
        /\ e57.page.logicalSize > 0

-----------------------------------------------------------------------------
(* SpecReopen: openE57 called again and again on one handle, with any      *)
(* Reader callback and file size.  rd is the last call: what openE57       *)
(* returned, the handle as it was before the call (rd.e57), the arguments, *)
(* and whether any call on the handle has returned true so far             *)
(* (rd.succeeded).                                                         *)

\* the Reader callbacks a caller passes
Readers == {"reader", "reader2"}

InitReopen ==
    /\ file \in [size     : {FileBytes},
                 sigOk    : BOOLEAN,
                 header   : [pageSize          : ReadyPageSizes \cup {0},
                             xmlPhysicalOffset : {0, MaxXmlOffset},
                             xmlLogicalLength  : {0, MaxXmlLength}],
                 badCrc   : SUBSET Pages,
                 xmlValid : BOOLEAN]
    /\ e57 = NewHandle
    /\ proc = "running"
    /\ rd = NoCall
    /\ physicalOffset = 0
    /\ chain = Idle
    /\ bits = Idle
    /\ pts = Idle

\* openE57(e57, logger, fileRead, fileReadData, fileSize)
ReopenE57 ==
    /\ proc = "running"
    /\ \E reader \in Readers, fileSize \in {HeaderSize - 1, file.size},
          failAt \in FailAts, ub \in UbOutcomes :
         LET r == openE57(e57, reader, fileSize, failAt, ub)
         IN  /\ rd' = [op |-> r.op, ret |-> r.ret, e57 |-> e57, reads |-> r.reads,
                       reader |-> reader, fileSize |-> fileSize,
                       succeeded |-> (rd # NoCall /\ rd.succeeded) \/ r.ret = "true"]
             /\ e57' = r.e57
             /\ proc' = IF r.ret = "crash" THEN "crashed" ELSE "running"
    /\ UNCHANGED <<file, physicalOffset, chain, bits, pts>>

NextReopen == ReopenE57

SpecReopen == InitReopen /\ [][NextReopen]_vars

\* C33: the handle is ready exactly when some openE57 call on it returned
\* true; a call on a handle that is already ready returns false without a
\* Reader read and leaves the handle (reader callback, file size, header, page
\* parameters, schema) as it was.
C33_ReadyIffOpened ==
    /\ e57.ready <=> (Opened /\ rd.succeeded)
    /\ (Opened /\ rd.e57.ready) =>
          /\ rd.ret = "false"
          /\ rd.reads = <<>>
          /\ e57 = rd.e57

\* a call with another Reader callback and another file size on a handle that
\* an earlier call opened
C33_Witness ==
    /\ Opened /\ rd.e57.ready
    /\ rd.reader # e57.fileRead
    /\ rd.fileSize # e57.fileSize
    /\ e57.ready /\ e57.page.size = 2 ^ MaxPageShift
    /\ e57.header.xmlLogicalLength > 0

-----------------------------------------------------------------------------
(* SpecBytes: the paging layer on an open file.  chain follows the calls  *)
(* made from an offset that is the first payload byte of a page, for as    *)
(* long as they succeed and stay within one page's payload; chain.last is  *)
(* what the last readE57Bytes call since the offset was set returned       *)
(* ("none": no call yet, "outside": it started outside a page payload).    *)
(* chain.from, chain.sum and chain.calls follow the calls made back to     *)
(* back from any offset inside a page payload for as long as they succeed: *)
(* where the first started, the bytes asked for in all, and how many calls *)
(* (counted up to MaxChainCalls).                                          *)

ReadyHandle(pageSize) ==
    [NewHandle EXCEPT !.ready = TRUE, !.fileRead = "reader", !.fileSize = FileBytes,
                      !.header.pageSize = pageSize, !.page = PageOf(pageSize),
                      !.points = 1]

\* the calls of a chain are counted up to this number
MaxChainCalls == 3

NoChain == [start |-> -1, total |-> 0, ok |-> FALSE, last |-> "none",
            from |-> -1, sum |-> 0, calls |-> 0]

InitBytes ==
    /\ file \in [size     : {FileBytes},
                 sigOk    : {TRUE},
                 header   : [pageSize          : ReadyPageSizes,
                             xmlPhysicalOffset : {0},
                             xmlLogicalLength  : {0}],
                 badCrc   : SUBSET Pages,
                 xmlValid : {TRUE}]
    /\ e57 = ReadyHandle(file.header.pageSize)
    /\ proc = "running"
    /\ rd = NoCall
    /\ physicalOffset = 0
    /\ chain = [start |-> 0, total |-> 0, ok |-> TRUE, last |-> "none",
                from |-> 0, sum |-> 0, calls |-> 0]
    /\ bits = Idle
    /\ pts = Idle

\* The caller sets its offset variable to any physical offset of the file.
SetOffset ==
    /\ proc = "running"
    /\ rd = NoCall
    /\ \E p \in 0 .. (FileBytes - 1) :
         /\ physicalOffset' = p
         /\ chain' = [(IF BitAnd(p, e57.page.mask) = 0
                       THEN [NoChain EXCEPT !.start = p, !.ok = TRUE]
                       ELSE NoChain)
                      EXCEPT !.from = IF OutsidePayload(e57, BitAnd(p, e57.page.mask))
                                      THEN -1 ELSE p]
    /\ UNCHANGED <<file, e57, proc, rd, bits, pts>>

\* readE57Bytes(e57, logger, dst, physicalOffset, n): physicalOffset is in-out.
CallReadE57Bytes ==
    /\ proc = "running"
    /\ rd = NoCall
    /\ \E n \in 0 .. MaxRead, failAt \in FailAts, ub \in UbOutcomes :
         LET r == readE57Bytes(e57, physicalOffset, n, failAt, ub)
         IN  /\ rd' = [op |-> "readE57Bytes", ret |-> r.ret, start |-> physicalOffset,
                       n |-> n, dst |-> r.dst, reads |-> r.reads, checked |-> r.checked,
                       after |-> chain.last,
                       inspectedEmpty |-> r.inspectedEmpty, overread |-> r.overread]
             /\ physicalOffset' = r.physicalOffset
             /\ proc' = IF r.ret = "crash" THEN "crashed" ELSE "running"
             /\ chain' = [(IF r.ret = "true" /\ chain.ok
                              /\ chain.total + n <= e57.page.logicalSize
                           THEN [chain EXCEPT !.total = @ + n]
                           ELSE NoChain)
                          EXCEPT !.last = IF OutsidePayload(e57, BitAnd(physicalOffset, e57.page.mask))
                                          THEN "outside" ELSE r.ret,
                                 !.from  = IF r.ret = "true" THEN chain.from ELSE -1,
                                 !.sum   = IF r.ret = "true" /\ chain.from # -1
                                           THEN chain.sum + n ELSE 0,
                                 !.calls = IF r.ret = "true" /\ chain.from # -1
                                           THEN UMin(chain.calls + 1, MaxChainCalls)
                                           ELSE 0]
    /\ UNCHANGED <<file, e57, bits, pts>>

\* calculateSectionPhysicalEnd(ctx, fileOffset, sectionLogicalLength)
CallCalculateSectionPhysicalEnd ==
    /\ proc = "running"
    /\ rd = NoCall
    /\ \E len \in 0 .. MaxSectionLength :
         rd' = [op |-> "calculateSectionPhysicalEnd",
                fileOffset |-> physicalOffset,
                sectionLogicalLength |-> len,
                logicalEnd |-> calculateSectionLogicalEnd(e57, physicalOffset, len),
                physicalEnd |-> calculateSectionPhysicalEnd(e57, physicalOffset, len)]
    /\ UNCHANGED <<file, e57, proc, physicalOffset, chain, bits, pts>>

\* The caller has taken the result of the last call and goes on.
Return ==
    /\ proc = "running"
    /\ rd # NoCall
    /\ rd' = NoCall
    /\ UNCHANGED <<file, e57, proc, physicalOffset, chain, bits, pts>>

NextBytes ==
    \/ SetOffset
    \/ Return
    \/ CallReadE57Bytes
    \/ CallCalculateSectionPhysicalEnd

SpecBytes == InitBytes /\ [][NextBytes]_vars

-----------------------------------------------------------------------------
(* Properties of the paging layer and of openE57 *)

\* The payload bytes of the file from address a on, n of them, walked one
\* address at a time: an address belongs to a payload when its offset in its
\* page is below pageSize - 4.
RECURSIVE PayloadFrom(_, _, _)
PayloadFrom(pageSize, a, n) ==
    IF n = 0 THEN <<>>
    ELSE IF a % pageSize < pageSize - CrcSize
         THEN <<a>> \o PayloadFrom(pageSize, a + 1, n - 1)
         ELSE PayloadFrom(pageSize, a + 1, n)

InPayload(h, p) == BitAnd(p, h.page.mask) < h.page.logicalSize

\* the pages that hold the n payload bytes from a physical offset on
PagesOf(pageSize, offset, n) ==
    LET bytes == PayloadFrom(pageSize, offset, n)
    IN  {bytes[k] \div pageSize : k \in DOMAIN bytes}

ReadReturned == rd # NoCall /\ rd.op = "readE57Bytes"

\* C5: a successful readE57Bytes(start, n) delivers exactly the n consecutive
\* payload bytes that start at start, across page boundaries, and never a
\* byte of a CRC.
C5_DeliversPayload ==
    (ReadReturned /\ rd.ret = "true") =>
        /\ Len(rd.dst) = rd.n
        /\ rd.dst = PayloadFrom(e57.page.size, rd.start, rd.n)
        /\ \A k \in 1 .. Len(rd.dst) : InPayload(e57, rd.dst[k])

\* a successful read whose bytes come from three pages
C5_Witness ==
    /\ ReadReturned /\ rd.ret = "true"
    /\ Len(rd.checked) = 3
    /\ \E k \in 1 .. (Len(rd.dst) - 1) : rd.dst[k + 1] = rd.dst[k] + 1 + CrcSize

\* C6 (as claimed): when the stored CRC of page 0 does not match, openE57
\* does not succeed, wherever the XML section lies.
C6_Page0CrcFailsOpen ==
    (rd # NoCall /\ rd.op = "openE57" /\ 0 \in file.badCrc) => rd.ret # "true"

\* C7 (as claimed): when the Reader returned a zero-length view for a read of
\* the operation, the operation returns failure and no byte of the view was
\* inspected.
C7_ZeroViewFailsUntouched ==
    (ReadReturned /\ \E i \in 1 .. Len(rd.reads) : rd.reads[i].got = 0) =>
        (rd.ret = "false" /\ ~rd.inspectedEmpty)

\* C9: successful reads that start at the first payload byte of a page and
\* together consume logicalPageSize bytes leave the offset at start + pageSize.
C9_PageConsumedSkipsCrc ==
    (chain.ok /\ chain.total = e57.page.logicalSize) =>
        physicalOffset = chain.start + e57.page.size

\* the page was consumed by more than one call
C9_Witness ==
    /\ chain.ok /\ chain.total = e57.page.logicalSize
    /\ ReadReturned /\ rd.n > 0 /\ rd.n < e57.page.logicalSize
    /\ chain.start > 0

\* the call started at an offset whose in-page part is not below
\* logicalPageSize
StartedOutsidePayload ==
    ReadReturned /\ ULe(e57.page.logicalSize, BitAnd(rd.start, e57.page.mask))

\* C28: readE57Bytes called with a start offset whose in-page part
\* (physicalOffset & mask) is >= logicalPageSize fails, for every byte count
\* including 0, without invoking the Reader and leaving dst and
\* physicalOffset unchanged.
C28_OutsidePayloadFails ==
    StartedOutsidePayload =>
        /\ rd.ret = "false"
        /\ rd.reads = <<>>
        /\ rd.checked = <<>>
        /\ rd.dst = <<>>
        /\ physicalOffset = rd.start

\* a read of 0 bytes that starts on the CRC of a page after page 0
C28_Witness ==
    /\ StartedOutsidePayload
    /\ rd.n = 0
    /\ rd.start > e57.page.size
    /\ rd.start % e57.page.size >= e57.page.size - CrcSize
    /\ e57.page.size >= 2 ^ MinPageShift

C31_ReadEndIsSectionPhysicalEnd ==
    /\ (ReadReturned /\ rd.ret = "true") =>
          physicalOffset = calculateSectionPhysicalEnd(e57, rd.start, rd.n)
    /\ chain.from # -1 =>
          physicalOffset = calculateSectionPhysicalEnd(e57, chain.from, chain.sum)

\* three reads back to back from the middle of a payload; together they cross
\* a page boundary and end on the last payload byte of a page
C31_Witness ==
    /\ chain.from # -1 /\ chain.calls = MaxChainCalls
    /\ ReadReturned /\ rd.ret = "true" /\ rd.n > 0 /\ rd.n < chain.sum
    /\ BitAnd(chain.from, e57.page.mask) > 0
    /\ ShiftRight(chain.from, e57.page.shift) + 1 < ShiftRight(physicalOffset, e57.page.shift)
    /\ BitAnd(physicalOffset, e57.page.mask) = 0
    /\ calculateSectionLogicalEnd(e57, chain.from, chain.sum) % e57.page.logicalSize = 0

\* the pages whose CRC the last call compared
CheckedPages == {rd.checked[i] : i \in DOMAIN rd.checked}

\* the pages the Reader delivered to the last call
PagesRead ==
    {rd.reads[i].offset \div e57.page.size : i \in {j \in DOMAIN rd.reads : rd.reads[j].got # 0}}

\* C32: every byte readE57Bytes copies comes from a page whose CRC the same
\* call compared and found matching before the copy (also the bytes copied
\* before a later page fails); a call that returned true compared the CRC of
\* every page that holds one of its bytes; and when the CRC of a page the call
\* read does not match, the call returns failure.
C32_BytesFromVerifiedPages ==
    ReadReturned =>
        /\ \A k \in DOMAIN rd.dst :
              /\ rd.dst[k] \div e57.page.size \in CheckedPages
              /\ rd.dst[k] \div e57.page.size \notin file.badCrc
        /\ rd.ret = "true" =>
              /\ PagesOf(e57.page.size, rd.start, rd.n) \subseteq CheckedPages
              /\ PagesOf(e57.page.size, rd.start, rd.n) \cap file.badCrc = {}
        /\ PagesRead \cap file.badCrc # {} => rd.ret = "false"

\* a read that copied the bytes of one page and then failed on the CRC of the
\* next one, from which nothing was copied
C32_Witness ==
    /\ ReadReturned /\ rd.ret = "false"
    /\ Len(rd.checked) = 2
    /\ rd.checked[2] \in file.badCrc
    /\ rd.dst # <<>>
    /\ Len(rd.dst) < rd.n
    /\ \A k \in DOMAIN rd.dst : rd.dst[k] \div e57.page.size = rd.checked[1]

CalcReturned == rd # NoCall /\ rd.op = "calculateSectionPhysicalEnd"

\* C10: for p in a payload, physical -> logical -> physical returns p
\* (calculateSectionPhysicalEnd with a section length of 0).
C10_RoundTrip ==
    (CalcReturned /\ rd.sectionLogicalLength = 0 /\ InPayload(e57, rd.fileOffset)) =>
        rd.physicalEnd = rd.fileOffset

\* the round trip of an offset inside the payload of a page after page 0
C10_Witness ==
    /\ CalcReturned /\ rd.sectionLogicalLength = 0 /\ InPayload(e57, rd.fileOffset)
    /\ ShiftRight(rd.fileOffset, e57.page.shift) > 0
    /\ BitAnd(rd.fileOffset, e57.page.mask) > 0
    /\ rd.logicalEnd < rd.fileOffset

-----------------------------------------------------------------------------
(* SpecBits: consumeBits on one byte stream.  bits holds the stream        *)
(* (pattern, length, the bits that follow it), the component, the unpack   *)
(* state, the values written in this batch, and base: the number of items  *)
(* the stream had given before this batch.                                 *)

InitBits ==
    /\ \E type \in SchemaTypes, w \in 0 .. MaxBitWidth, len \in 0 .. MaxStreamBytes,
          pat \in 0 .. MaxPattern, tail \in {0, 1} :
         /\ (type \notin {"Integer", "ScaledInteger"}) => (w = 0)
         /\ bits = [stream       |-> [pat |-> pat, tail |-> tail, bitsAvailable |-> 8 * len],
                    comp         |-> [type |-> type, bitWidth |-> w, min |-> 0],
                    itemsWritten |-> 0,
                    bitsConsumed |-> 0,
                    maxItems     |-> 0,
                    base         |-> 0,
                    out          |-> [i \in 0 .. (MaxBatch - 1) |-> "none"],
                    progress     |-> TRUE]
    /\ file = Idle /\ e57 = Idle /\ proc = "running" /\ rd = NoCall
    /\ physicalOffset = 0 /\ chain = Idle /\ pts = Idle

\* readPointsIteration calls consumeBits for a state that still lacks items
\* and has bits of a packet (bitsConsumed is not AllBitsRead).
CallConsumeBits ==
    /\ bits.bitsConsumed # AllBitsRead
    /\ \E maxItems \in (bits.itemsWritten + 1) .. MaxBatch :
         LET r == consumeBits(bits.stream, bits, maxItems, bits.comp, bits.out)
         IN  bits' = [bits EXCEPT !.itemsWritten = r.itemsWritten,
                                  !.bitsConsumed = r.bitsConsumed,
                                  !.maxItems = maxItems,
                                  !.out = r.out,
                                  !.progress = r.progress]
    /\ UNCHANGED <<file, e57, proc, rd, physicalOffset, chain, pts>>

\* The next batch: readPointsIteration resets itemsWritten and keeps the
\* position in the stream.
NextBatch ==
    /\ bits.bitsConsumed # AllBitsRead
    /\ bits.itemsWritten > 0
    /\ bits.base + bits.itemsWritten < MaxDecoded
    /\ bits' = [bits EXCEPT !.base = @ + bits.itemsWritten,
                            !.itemsWritten = 0,
                            !.maxItems = 0,
                            !.out = [i \in 0 .. (MaxBatch - 1) |-> "none"]]
    /\ UNCHANGED <<file, e57, proc, rd, physicalOffset, chain, pts>>

NextBits == CallConsumeBits \/ NextBatch

SpecBits == InitBits /\ [][NextBits]_vars

\* the w-bit field of item k of the stream: bits [k*w, (k+1)*w), least
\* significant bit first
Field(b, k, w) ==
    [j \in Bit64 |-> IF j <= w THEN StreamBit(b, k * w + (j - 1)) ELSE 0]

IsInteger == bits.comp.type \in {"Integer", "ScaledInteger"}

\* C8 (as claimed): for an Integer or ScaledInteger component of any
\* bitWidth w in 0..63, the k-th value decoded from the stream is min + F
\* with F the field at bits [k*w, (k+1)*w), at every bit position.
C8_DecodesField ==
    IsInteger =>
        \A i \in 0 .. (bits.itemsWritten - 1) :
            bits.out[i] = [type |-> bits.comp.type,
                           min  |-> bits.comp.min,
                           bits |-> Field(bits.stream, bits.base + i, bits.comp.bitWidth)]

\* a call of consumeBits has returned
BitsReturned == bits.maxItems > 0

\* C12: a consumeBits call made with itemsWritten < maxItems on a component
\* of type Integer, ScaledInteger, Float or Double returns itemsWritten =
\* maxItems, or itemsWritten < maxItems together with bitsConsumed =
\* AllBitsRead; when it does not return AllBitsRead, bitsConsumed is at most
\* bitsAvailable.
C12_BatchCompleteOrExhausted ==
    (BitsReturned /\ bits.comp.type \in ComponentTypes) =>
        /\ \/ bits.itemsWritten = bits.maxItems
           \/ bits.itemsWritten < bits.maxItems /\ bits.bitsConsumed = AllBitsRead
        /\ bits.bitsConsumed # AllBitsRead
              => ULe(bits.bitsConsumed, bits.stream.bitsAvailable)

\* a call that wrote some of its items and then found the stream exhausted
C12_Witness ==
    /\ BitsReturned
    /\ bits.comp.type \in ComponentTypes
    /\ bits.base > 0
    /\ bits.itemsWritten > 0
    /\ bits.itemsWritten < bits.maxItems
    /\ bits.bitsConsumed = AllBitsRead

\* C13 (as claimed): the "No progress" assertion holds on the return of
\* every consumeBits call of the batch loop, for every component the schema
\* can hold: an item was written or bitsConsumed is AllBitsRead.
C13_NoProgressNeverFails ==
    BitsReturned => bits.progress

-----------------------------------------------------------------------------
(* The compressed-vector section: packets                                  *)
(*                                                                         *)
(* A packet of the file is [type, size, streamCount, lens]: the type byte, *)
(* the packet length the header stores (length-minus-one plus 1), and for  *)
(* a Data packet the stream count and the byte length of each stream.      *)

MaxPackets == 3
MaxStreams == 2
MaxStreamLen == 2
MaxRecords == 3
MaxCapacity == 2
MaxSectionWords == 8
PtsBitWidth == 8

\* size of the section header readE57Points reads
SectionHeaderSize == 32
\* offset of the first stream-length field of a Data packet
DataHeaderSize == 6
\* size of the packet header getPacket reads first
PacketHeaderSize == 4
\* sectionId of a compressed vector section
CompressedVectorSectionId == 1

RECURSIVE SumTo(_, _)
SumTo(lens, n) == IF n = 0 THEN 0 ELSE lens[n] + SumTo(lens, n - 1)

Pad4(n) == 4 * ((n + 3) \div 4)

DataPacket(lens) ==
    [type        |-> "Data",
     size        |-> Pad4(DataHeaderSize + 2 * Len(lens) + SumTo(lens, Len(lens))),
     streamCount |-> Len(lens),
     lens        |-> lens]

\* what follows the last packet written: zero bytes, which read as a packet
\* of type 0 (Index) and length-minus-one 0
ZeroBytes == [type |-> "Index", size |-> 1, streamCount |-> 0, lens |-> <<>>]

PacketKinds ==
    {DataPacket(lens) : lens \in UNION {[1 .. c -> 0 .. MaxStreamLen] : c \in 1 .. MaxStreams}}
      \cup {[type |-> "Index", size |-> 16, streamCount |-> 0, lens |-> <<>>],
            [type |-> "Empty", size |-> 4, streamCount |-> 0, lens |-> <<>>],
            ZeroBytes}

MaxPacketSize == Pad4(DataHeaderSize + 2 * MaxStreams + MaxStreams * MaxStreamLen)

\* a faulty variant: the buffer ends with the longest packet
BufferSizeOfPacket == MaxPacketSize

\* Context::packet.data, 8 bytes longer than the longest packet
BufferSize == MaxPacketSize + 8

\* memcpy of the bytes a read delivered into the packet buffer at `at`
CopyInto(data, at, bytes) ==
    [k \in DOMAIN data |-> IF k >= at /\ k < at + Len(bytes) THEN bytes[k - at + 1] ELSE data[k]]

NewContext ==
    [currentOffset     |-> 0,
     nextOffset        |-> 0,
     size              |-> 0,
     type              |-> "Empty",
     data              |-> [k \in 0 .. (BufferSize - 1) |-> 0],
     byteStreamsCount  |-> 0,
     byteStreamOffsets |-> [k \in 0 .. MaxStreams |-> 0]]

\* the failure exit of getPacket
PacketFailed(ctx, reads) ==
    [ctx   |-> [ctx EXCEPT !.nextOffset = 0, !.currentOffset = 0],
     ret   |-> 0, crash |-> FALSE, reads |-> reads]

\* the loop of getPacket over the stream lengths of a Data packet:
\* st = [i, offset, offsets, ok]
RECURSIVE StreamOffsets(_, _, _)
StreamOffsets(size, pk, st) ==
    IF ~(st.i < pk.streamCount) THEN st
    ELSE LET offset == st.offset + pk.lens[st.i + 1]
             st1 == [st EXCEPT !.offsets[st.i] = st.offset, !.offset = offset]
         IN  IF size < offset
             THEN [st1 EXCEPT !.ok = FALSE]
             ELSE StreamOffsets(size, pk, [st1 EXCEPT !.i = @ + 1])

\* a faulty variant: the loop's test of the offset against the packet size
\* is ignored
dataPacketOffsetsUnchecked(ctx, reads, nextOffset, st) ==
    [ctx   |-> [ctx EXCEPT !.byteStreamOffsets =
                              [st.offsets EXCEPT ![ctx.byteStreamsCount] = st.offset],
                           !.nextOffset = nextOffset],
     ret   |-> nextOffset, crash |-> FALSE, reads |-> reads]

\* the Data case of getPacket after its loop (st)
dataPacketOffsets(ctx, reads, nextOffset, st) ==
    LET c2 == [ctx EXCEPT !.byteStreamOffsets = st.offsets]
    IN  IF ~st.ok THEN PacketFailed(c2, reads)
        ELSE [ctx   |-> [c2 EXCEPT !.byteStreamOffsets[c2.byteStreamsCount] = st.offset,
                                    !.nextOffset = nextOffset],
              ret   |-> nextOffset, crash |-> FALSE, reads |-> reads]

\* the Data case of getPacket
decodeDataPacket(ctx, pk, reads, nextOffset) ==
    IF ctx.size % 4 # 0 THEN PacketFailed(ctx, reads)
    ELSE
      LET c1 == [ctx EXCEPT !.byteStreamsCount = pk.streamCount]
      IN  IF c1.byteStreamsCount = 0 THEN PacketFailed(c1, reads)
          ELSE
            dataPacketOffsets(c1, reads, nextOffset,
               StreamOffsets(c1.size, pk,
                  [i |-> 0, offset |-> DataHeaderSize + 2 * c1.byteStreamsCount,
                   offsets |-> c1.byteStreamOffsets, ok |-> TRUE]))

\* getPacket after the rest of the packet was read (r2)
getPacketRest(ctx, pk, reads, r2) ==
    LET c3 == [ctx EXCEPT !.data = CopyInto(@, PacketHeaderSize, r2.dst)]
    IN  IF r2.ret = "crash"
        THEN [ctx |-> c3, ret |-> 0, crash |-> TRUE, reads |-> reads \o r2.reads]
        ELSE IF r2.ret = "false" THEN PacketFailed(c3, reads \o r2.reads)
        ELSE IF c3.type = "Data"
        THEN decodeDataPacket(c3, pk, reads \o r2.reads, r2.physicalOffset)
        ELSE [ctx   |-> [c3 EXCEPT !.nextOffset = r2.physicalOffset],
              ret   |-> r2.physicalOffset, crash |-> FALSE, reads |-> reads \o r2.reads]

\* a faulty variant: a packet of any type is taken
AnyTypeExpected(type, expectedPacketType) == FALSE

\* Check if packet is the expected type
UnexpectedType(type, expectedPacketType) == type # expectedPacketType

\* getPacket after the 4 bytes of the packet header were read (r1)
getPacketHeader(h, ctx, expectedPacketType, pk, failAt, ub, r1) ==
    LET c1 == [ctx EXCEPT !.data = CopyInto(@, 0, r1.dst)]
        c2 == [c1 EXCEPT !.type = pk.type, !.size = pk.size]
        failAt2 == IF failAt > Len(r1.reads) THEN failAt - Len(r1.reads) ELSE 0
    IN  IF r1.ret = "crash"
        THEN [ctx |-> c1, ret |-> 0, crash |-> TRUE, reads |-> r1.reads]
        ELSE IF r1.ret = "false" THEN PacketFailed(c1, r1.reads)
        ELSE IF c2.size < PacketHeaderSize THEN PacketFailed(c2, r1.reads)
        ELSE IF UnexpectedType(c2.type, expectedPacketType) THEN PacketFailed(c2, r1.reads)
        ELSE getPacketRest(c2, pk, r1.reads,
                           readE57Bytes(h, r1.physicalOffset, c2.size - PacketHeaderSize,
                                        failAt2, ub))

\* a faulty variant: the cached packet is never reused
CacheNeverHit(ctx, packetOffset) == FALSE

\* Check if we already have read this packet.
CacheHit(ctx, packetOffset) == ctx.currentOffset = packetOffset

\* getPacket(ctx, packetOffset, expectedPacketType), pk being the packet the
\* file holds at packetOffset.  ret is the offset of the next packet, 0 on
\* failure; crash when a page read ended the process.
getPacket(h, ctx, packetOffset, expectedPacketType, pk, failAt, ub) ==
    IF CacheHit(ctx, packetOffset)
    THEN [ctx |-> ctx, ret |-> ctx.nextOffset, crash |-> FALSE, reads |-> <<>>]
    ELSE getPacketHeader(h, [ctx EXCEPT !.currentOffset = packetOffset],
                         expectedPacketType, pk, failAt, ub,
                         readE57Bytes(h, packetOffset, PacketHeaderSize, failAt, ub))

-----------------------------------------------------------------------------
(* SpecPoints: readE57Points on one point set.                             *)
(*                                                                         *)
(* pts holds the point set (fileOffset, recordCount, components), the      *)
(* section header the file stores, the ReadPointsArgs, the packets of the  *)
(* file read so far (pkts: the file is read front to back, a packet is     *)
(* chosen when the decoder first reads its offset), the Context, the read  *)
(* states and the position of the call.  callbacks is the list of counts   *)
(* consumeCallback was called with, out what the current batch wrote for   *)
(* each read state.  from (in a read state) is the offset of the packet    *)
(* its slice was taken from, unpacked the last call of consumeBits and     *)
(* fetched the fetch of the last turn (the state, its stream, the offset   *)
(* it asked for, the packet the file holds there, whether getPacket was    *)
(* called, its Reader reads and return value, and the indices at which     *)
(* byteStreamOffsets was read), headerRead what the read of the section    *)
(* header returned; none of them is read by the code.                      *)

\* readStates[i].unpackDesc.maxItems as readPoints initialises it
InitialMaxItems == 5

\* pages enough for the section header, MaxPackets packets and what follows,
\* after the page the section may start in
PointsFileBytes ==
    (2 ^ MaxPageShift) *
      (2 + (SectionHeaderSize + (MaxPackets + 1) * MaxPacketSize) \div (2 ^ MaxPageShift - CrcSize))

\* Points::fileOffset: the section starts with the file or inside the
\* payload of its second page
PointSetOffsets == {0, 2 ^ MaxPageShift + 2}

Component(stream) == [type |-> "Integer", bitWidth |-> PtsBitWidth, min |-> 0]

NoUnpack == [state |-> -1, buffer |-> 0, from |-> 0, items |-> 0]

\* the record of a turn in which no packet was fetched
NoFetch == [state |-> -1, stream |-> 0, offset |-> 0, pk |-> ZeroBytes, called |-> FALSE,
            reads |-> <<>>, next |-> 0, indexed |-> {}]

NewReadState ==
    [packetOffset |-> 0, itemsWritten |-> 0, bitsConsumed |-> 0, maxItems |-> 0,
     byteStreamOffset |-> 0, bitsAvailable |-> 0, from |-> 0]

WriteDescs == {<<0>>, <<1>>, <<0, 1>>}

States == 0 .. (Len(pts.args.writeDesc) - 1)

\* a position of the output buffer the current batch has not written
Unwritten == [type |-> "none"]

NoOutput == [i \in 0 .. (MaxStreams - 1) |-> [k \in 0 .. (MaxCapacity - 1) |-> Unwritten]]

InitPoints ==
    /\ file = [size     |-> PointsFileBytes,
               sigOk    |-> TRUE,
               header   |-> [pageSize |-> 2 ^ MaxPageShift, xmlPhysicalOffset |-> 0,
                             xmlLogicalLength |-> 0],
               badCrc   |-> {},
               xmlValid |-> TRUE]
    /\ e57 = [ReadyHandle(file.header.pageSize) EXCEPT !.fileSize = PointsFileBytes]
    /\ proc = "running"
    /\ rd = NoCall
    /\ physicalOffset = 0
    /\ chain = Idle
    /\ bits = Idle
    /\ \E fileOffset \in PointSetOffsets :
       \E dataAt \in {0, readE57Bytes(e57, fileOffset, SectionHeaderSize, 0, "false").physicalOffset} :
       \E writeDesc \in WriteDescs, recordCount \in 0 .. MaxRecords,
          pointCapacity \in 0 .. MaxCapacity, words \in 0 .. MaxSectionWords,
          sectionId \in {CompressedVectorSectionId, 0} :
         pts = [fileOffset  |-> fileOffset,
                recordCount |-> recordCount,
                section     |-> [sectionId |-> sectionId,
                                 sectionLogicalLength |-> SectionHeaderSize + 4 * words,
                                 dataPhysicalOffset |-> dataAt],
                args        |-> [writeDesc |-> writeDesc, pointCapacity |-> pointCapacity],
                pkts        |-> <<>>,
                ctx         |-> NewContext,
                readStates  |-> [i \in 0 .. (Len(writeDesc) - 1) |-> NewReadState],
                pc          |-> "call",
                i           |-> 0,
                done        |-> TRUE,
                pointsDone  |-> 0,
                pointsToDo  |-> 0,
                dataPhysicalOffset |-> 0,
                sectionPhysicalEnd |-> 0,
                callbacks   |-> <<>>,
                out         |-> NoOutput,
                unpacked    |-> NoUnpack,
                fetched     |-> NoFetch,
                headerRead  |-> "none",
                ret         |-> "none"]

Returns(value) == [pts EXCEPT !.pc = "returned", !.ret = value]

\* a faulty variant: the section id is not looked at
SectionIdIgnored(sectionId) == FALSE

\* sectionId != CompressedVectorSectionId
BadSectionId(sectionId) == sectionId # CompressedVectorSectionId

\* readE57Points after the read of the section header (r); headerRead keeps
\* what that read returned
SectionHeaderRead(r) ==
    IF r.ret = "crash"
    THEN proc' = "crashed" /\ pts' = [pts EXCEPT !.pc = "returned", !.headerRead = r.ret]
    ELSE
      /\ proc' = proc
      /\ IF r.ret = "false" THEN pts' = [Returns("false") EXCEPT !.headerRead = r.ret]
         ELSE IF BadSectionId(pts.section.sectionId)
         THEN pts' = [Returns("false") EXCEPT !.headerRead = r.ret]
         ELSE pts' = [pts EXCEPT
                !.headerRead = r.ret,
                !.sectionPhysicalEnd =
                   calculateSectionPhysicalEnd(e57, pts.fileOffset,
                                               pts.section.sectionLogicalLength),
                !.dataPhysicalOffset = pts.section.dataPhysicalOffset,
                !.readStates = [i \in States |->
                   [NewReadState EXCEPT
                      !.packetOffset = pts.section.dataPhysicalOffset,
                      !.bitsConsumed = AllBitsRead,
                      !.maxItems = InitialMaxItems]],
                !.pc = "loop"]

\* readE57Points up to the loop of readPoints: the section header is read and
\* checked, the read states are initialised.
ReadE57Points ==
    /\ pts.pc = "call"
    /\ \E failAt \in FailAts, ub \in UbOutcomes :
         SectionHeaderRead(readE57Bytes(e57, pts.fileOffset, SectionHeaderSize, failAt, ub))
    /\ UNCHANGED <<file, e57, rd, physicalOffset, chain, bits>>

\* a faulty variant: the last batch is not cut to what is left
PointsToDoAlwaysCapacity(recordCount, pointsDone, pointCapacity) == pointCapacity

\* size_t pointsToDo = std::min(recordCount - pointsDone, pointCapacity)
PointsToDo(recordCount, pointsDone, pointCapacity) ==
    IF pointCapacity < recordCount - pointsDone THEN pointCapacity
    ELSE recordCount - pointsDone

\* a faulty variant: one more batch is started when all points are done
MorePointsInclusive(pointsDone, recordCount) == pointsDone <= recordCount

\* while (pointsDone < ctx.pts.recordCount)
MorePoints(pointsDone, recordCount) == pointsDone < recordCount

\* The head of the loop of readPoints and the first lines of
\* readPointsIteration: the call returns when all points are done, else the
\* next batch starts with every state's itemsWritten at 0.
BeginBatch ==
    /\ pts.pc = "loop"
    /\ IF MorePoints(pts.pointsDone, pts.recordCount)
       THEN LET pointsToDo == PointsToDo(pts.recordCount, pts.pointsDone,
                                         pts.args.pointCapacity)
            IN  pts' = [pts EXCEPT
                  !.pointsToDo = pointsToDo,
                  !.readStates = [i \in States |->
                      [pts.readStates[i] EXCEPT !.itemsWritten = 0,
                                                !.maxItems = pointsToDo]],
                  !.out = NoOutput,
                  !.pc = "pass", !.i = 0, !.done = TRUE]
       ELSE pts' = Returns("true")
    /\ UNCHANGED <<file, e57, proc, rd, physicalOffset, chain, bits>>

\* the packet the file holds at a packet offset read before
Known(offset) == {k \in 1 .. Len(pts.pkts) : pts.pkts[k].offset = offset}

PacketAt(offset) == pts.pkts[CHOOSE k \in Known(offset) : TRUE].pk

\* the packets the file may hold at an offset that is read for the first time
PacketsAt(offset) ==
    IF Known(offset) # {} THEN {PacketAt(offset)}
    ELSE IF Len(pts.pkts) < MaxPackets THEN PacketKinds
    ELSE {ZeroBytes}

\* a faulty variant: the stream is taken to be in every packet
StreamNeverMissing(byteStreamsCount, stream) == FALSE

\* ctx.dataPacket.byteStreamsCount <= stream
StreamMissing(byteStreamsCount, stream) == byteStreamsCount <= stream

\* what lines 313-318 leave of a fetch, for the record of the turn: whether
\* getPacket was called, the Reader reads it issued, what it returned, and
\* the indices at which byteStreamOffsets was read
fetchRecord(called, g, indexed) ==
    [called |-> called, reads |-> g.reads, next |-> g.ret, indexed |-> indexed]

\* a faulty variant: the state keeps the offset it asked for
SamePacketOffset(readState, g) == readState.packetOffset

\* readState.packetOffset = getPacket(ctx, readState.packetOffset, PacketType::Data)
NextPacketOffset(readState, g) == g.ret

\* lines 318-328 of readPointsIteration, g being what getPacket returned
fetchedPacket(readState, stream, g) ==
    LET rs1 == [readState EXCEPT !.packetOffset = NextPacketOffset(readState, g)]
    IN  IF g.crash
        THEN [ret |-> FALSE, crash |-> TRUE, ctx |-> g.ctx, readState |-> readState,
              fetch |-> fetchRecord(TRUE, g, {})]
        ELSE IF rs1.packetOffset = 0
        THEN [ret |-> FALSE, crash |-> FALSE, ctx |-> g.ctx, readState |-> rs1,
              fetch |-> fetchRecord(TRUE, g, {})]
        ELSE IF StreamMissing(g.ctx.byteStreamsCount, stream)
        THEN [ret |-> FALSE, crash |-> FALSE, ctx |-> g.ctx, readState |-> rs1,
              fetch |-> fetchRecord(TRUE, g, {})]
        ELSE [ret |-> TRUE, crash |-> FALSE, ctx |-> g.ctx,
              fetch |-> fetchRecord(TRUE, g, {stream, stream + 1}),
              readState |-> [rs1 EXCEPT
                 !.bitsConsumed = 0,
                 !.byteStreamOffset = g.ctx.byteStreamOffsets[stream],
                 !.bitsAvailable = 8 * (g.ctx.byteStreamOffsets[stream + 1]
                                          - g.ctx.byteStreamOffsets[stream]),
                 !.from = g.ctx.currentOffset]]

\* a faulty variant: the end of the section is not looked at
fetchPacketUnbounded(ctx, readState, stream, sectionPhysicalEnd, pk, failAt, ub) ==
    fetchedPacket(readState, stream,
       getPacket(e57, ctx, readState.packetOffset, "Data", pk, failAt, ub))

\* lines 309-328 of readPointsIteration, for a state with no bits ready:
\* [ret, crash, ctx, readState, fetch]
fetchPacket(ctx, readState, stream, sectionPhysicalEnd, pk, failAt, ub) ==
    IF ULe(sectionPhysicalEnd, readState.packetOffset)
    THEN [ret |-> FALSE, crash |-> FALSE, ctx |-> ctx, readState |-> readState,
          fetch |-> fetchRecord(FALSE, [reads |-> <<>>, ret |-> 0], {})]
    ELSE fetchedPacket(readState, stream,
            getPacket(e57, ctx, readState.packetOffset, "Data", pk, failAt, ub))

\* a faulty variant: every state the pass visits asks for another pass
DoneUpdateAgain(done, readState) == FALSE

\* done = done && readState.unpackState.itemsWritten < readState.unpackDesc.maxItems
DoneUpdate(done, readState) == done /\ readState.itemsWritten < readState.maxItems

\* lines 333-338 of readPointsIteration: the state takes what consumeBits
\* returned (r), done is updated.  (The "No progress" assertion of line 333
\* is r.progress; consumeBits on an Integer component always satisfies it.)
unpackedState(p, i, ctx, readState, r) ==
    LET rs1 == [readState EXCEPT !.itemsWritten = r.itemsWritten,
                                 !.bitsConsumed = r.bitsConsumed]
    IN  [p EXCEPT !.ctx = ctx,
                  !.readStates[i] = rs1,
                  !.out[i] = r.out,
                  !.unpacked = [state |-> i, buffer |-> ctx.currentOffset,
                                from |-> readState.from,
                                items |-> r.itemsWritten - readState.itemsWritten],
                  !.done = DoneUpdate(p.done, rs1),
                  !.i = i + 1]

\* lines 331-338 of readPointsIteration: consumeBits on the state's slice of
\* the packet buffer, the assertion, the update of done
unpackState(p, i, ctx, readState) ==
    unpackedState(p, i, ctx, readState,
       consumeBits([data |-> ctx.data, byteStreamOffset |-> readState.byteStreamOffset,
                    bitsAvailable |-> readState.bitsAvailable],
                   readState, readState.maxItems, Component(p.args.writeDesc[i + 1]),
                   p.out[i]))

\* the turn of a state that had to fetch a packet, f being what lines
\* 309-328 left
FetchedStep(i, readState, pk, f) ==
    LET p1 == [pts EXCEPT
                 !.ctx = f.ctx,
                 !.readStates[i] = f.readState,
                 !.unpacked = NoUnpack,
                 !.fetched = [state  |-> i,
                              stream |-> pts.args.writeDesc[i + 1],
                              offset |-> readState.packetOffset,
                              pk     |-> pk,
                              called |-> f.fetch.called,
                              reads  |-> f.fetch.reads,
                              next   |-> f.fetch.next,
                              indexed |-> f.fetch.indexed],
                 !.pkts = IF f.fetch.reads # <<>> /\ Known(readState.packetOffset) = {}
                          THEN Append(@, [offset |-> readState.packetOffset, pk |-> pk])
                          ELSE @]
    IN  IF f.crash
        THEN proc' = "crashed" /\ pts' = [p1 EXCEPT !.pc = "returned"]
        ELSE /\ proc' = proc
             /\ IF ~f.ret
                THEN pts' = [p1 EXCEPT !.pc = "returned", !.ret = "false"]
                ELSE pts' = unpackState(p1, i, f.ctx, f.readState)

\* One turn of the for loop of readPointsIteration, for read state pts.i.
StateStep ==
    /\ pts.pc = "pass"
    /\ pts.i < Len(pts.args.writeDesc)
    /\ LET i == pts.i
           readState == pts.readStates[i]
           stream == pts.args.writeDesc[i + 1]
       IN  IF ~(readState.itemsWritten < readState.maxItems)
           THEN /\ pts' = [pts EXCEPT !.i = i + 1, !.unpacked = NoUnpack,
                                       !.fetched = NoFetch]
                /\ proc' = proc
           ELSE IF readState.bitsConsumed # AllBitsRead
           THEN /\ pts' = unpackState([pts EXCEPT !.fetched = NoFetch], i, pts.ctx, readState)
                /\ proc' = proc
           ELSE
             \E pk \in PacketsAt(readState.packetOffset) :
             \E failAt \in IF pts.ctx.currentOffset = readState.packetOffset
                           THEN {0} ELSE FailAts :
             \E ub \in IF failAt = 0 THEN {"false"} ELSE UbOutcomes :
               FetchedStep(i, readState, pk,
                  fetchPacket(pts.ctx, readState, stream, pts.sectionPhysicalEnd,
                              pk, failAt, ub))
    /\ UNCHANGED <<file, e57, rd, physicalOffset, chain, bits>>

\* The end of the for loop: while (!done) starts another pass, else
\* readPointsIteration returns true.
EndPass ==
    /\ pts.pc = "pass"
    /\ pts.i = Len(pts.args.writeDesc)
    /\ IF ~pts.done
       THEN pts' = [pts EXCEPT !.i = 0, !.done = TRUE]
       ELSE pts' = [pts EXCEPT !.pc = "callback"]
    /\ UNCHANGED <<file, e57, proc, rd, physicalOffset, chain, bits>>

\* consumeCallback(consumeCallbackData, pointsToDo); pointsDone += pointsToDo.
\* With pointCapacity = 0 pointsDone never grows and the loop of readPoints
\* has no end; the model follows it for MaxRecords + 1 callbacks.
Callback ==
    /\ pts.pc = "callback"
    /\ Len(pts.callbacks) <= MaxRecords
    /\ pts' = [pts EXCEPT !.callbacks = Append(@, pts.pointsToDo),
                          !.pointsDone = @ + pts.pointsToDo,
                          !.pc = "loop"]
    /\ UNCHANGED <<file, e57, proc, rd, physicalOffset, chain, bits>>

NextPoints == ReadE57Points \/ BeginBatch \/ StateStep \/ EndPass \/ Callback

SpecPoints == InitPoints /\ [][NextPoints]_vars

-----------------------------------------------------------------------------
(* Claims about the batch loop *)

\* readPointsIteration has returned true and the callback is about to run
IterationSucceeded == pts.pc = "callback"

\* C1: whenever readPointsIteration returns success, every read state has
\* written exactly pointsToDo items.
C1_IterationFillsEveryState ==
    IterationSucceeded =>
        \A i \in States : pts.readStates[i].itemsWritten = pts.pointsToDo

\* the offset of the byte after packet k of the file
PacketEnd(k) ==
    readE57Bytes(e57, pts.pkts[k].offset, pts.pkts[k].pk.size, 0, "false").physicalOffset

\* the section holds no packet the decoder has not read yet
SectionComplete ==
    /\ pts.pc # "call"
    /\ pts.dataPhysicalOffset # 0
    /\ IF pts.pkts = <<>>
       THEN ULe(pts.sectionPhysicalEnd, pts.dataPhysicalOffset)
       ELSE ULe(pts.sectionPhysicalEnd, PacketEnd(Len(pts.pkts)))

\* the items of byte stream `stream` one packet holds
ItemsIn(pk, stream) ==
    IF pk.type = "Data" /\ stream < pk.streamCount
    THEN (8 * pk.lens[stream + 1]) \div PtsBitWidth
    ELSE 0

\* the items of the stream that the first n packets hold before the section end
RECURSIVE Supply(_, _)
Supply(stream, n) ==
    IF n = 0 THEN 0
    ELSE Supply(stream, n - 1)
           + (IF ULt(pts.pkts[n].offset, pts.sectionPhysicalEnd)
              THEN ItemsIn(pts.pkts[n].pk, stream) ELSE 0)

RECURSIVE SumOf(_, _)
SumOf(seq, n) == IF n = 0 THEN 0 ELSE seq[n] + SumOf(seq, n - 1)

PointsGiven == SumOf(pts.callbacks, Len(pts.callbacks))

\* C2: if the Data packets of the section supply only N < recordCount items
\* of a selected stream, then with pointCapacity >= 1 readE57Points does not
\* return true and the callback has only been given batches made of the
\* first N points.
C2_ShortSectionFails ==
    (SectionComplete /\ pts.args.pointCapacity >= 1) =>
        \A i \in States :
            LET N == Supply(pts.args.writeDesc[i + 1], Len(pts.pkts))
            IN  N < pts.recordCount => (pts.ret # "true" /\ PointsGiven <= N)

\* C3: whenever consumeBits decodes items for a read state, the packet buffer
\* holds the packet that the state's slice was taken from.
C3_BufferHoldsSlicePacket ==
    pts.unpacked.items > 0 => pts.unpacked.buffer = pts.unpacked.from

CeilDiv(a, b) == (a + b - 1) \div b

\* C4: when readE57Points returns true with pointCapacity >= 1, the callback
\* was called ceil(recordCount / pointCapacity) times, the k-th time with
\* min(pointCapacity, recordCount - (k-1) * pointCapacity), every count is
\* positive and the counts add up to recordCount.
C4_CallbackCounts ==
    (pts.ret = "true" /\ pts.args.pointCapacity >= 1) =>
        /\ Len(pts.callbacks) = CeilDiv(pts.recordCount, pts.args.pointCapacity)
        /\ \A k \in 1 .. Len(pts.callbacks) :
              /\ pts.callbacks[k] > 0
              /\ pts.callbacks[k] =
                    IF pts.args.pointCapacity < pts.recordCount - (k - 1) * pts.args.pointCapacity
                    THEN pts.args.pointCapacity
                    ELSE pts.recordCount - (k - 1) * pts.args.pointCapacity
        /\ PointsGiven = pts.recordCount

\* a successful call whose last batch is shorter than pointCapacity
C4_Witness ==
    /\ pts.ret = "true"
    /\ pts.args.pointCapacity >= 1
    /\ Len(pts.callbacks) >= 2
    /\ pts.callbacks[Len(pts.callbacks)] < pts.args.pointCapacity



\* a pass of the while loop of readPoints ends: the callback has returned
\* and pointsDone was advanced
BatchDelivered == pts.pc = "callback" /\ pts'.pc = "loop"

\* C34 (as claimed): readE57Points terminates for every recordCount and
\* pointCapacity, pointCapacity = 0 included: every pass of the while loop of
\* readPoints brings pointsDone closer to recordCount and never beyond it, so
\* that the loop is left after at most recordCount passes.
C34_EveryBatchAdvances ==
    [][BatchDelivered =>
          /\ pts'.pointsDone > pts.pointsDone
          /\ pts'.pointsDone <= pts.recordCount
          /\ Len(pts'.callbacks) <= pts.recordCount]_vars

-----------------------------------------------------------------------------
(* Claims about the fetch of a packet *)

\* the last turn was that of a state that needed another packet
Fetched == pts.fetched.state # -1

\* every Reader read of the fetch delivered its bytes
ReadsDelivered == \A k \in DOMAIN pts.fetched.reads : pts.fetched.reads[k].got > 0

\* readE57Points has returned false
ReturnedFalse == pts.pc = "returned" /\ pts.ret = "false"

\* C18: if a read state needs another packet and the packet at its
\* packetOffset is an Index or Empty packet, readE57Points returns failure
\* and no value is unpacked from that packet.
C18_WrongKindFails ==
    (Fetched /\ ReadsDelivered /\ pts.fetched.pk.type \in {"Index", "Empty"}) =>
        /\ ReturnedFalse
        /\ pts.unpacked = NoUnpack
        /\ pts.fetched.indexed = {}
        /\ pts.fetched.next = 0

\* after a batch was handed over, a state read an Empty packet of 4 bytes
C18_Witness ==
    /\ Fetched
    /\ ReadsDelivered
    /\ pts.fetched.called
    /\ pts.fetched.reads # <<>>
    /\ pts.fetched.pk.type = "Empty"
    /\ pts.fetched.pk.size >= PacketHeaderSize
    /\ pts.callbacks # <<>>
    /\ ReturnedFalse

\* C19: no packet is fetched at a physical offset >= sectionPhysicalEnd: a
\* read state that needs a packet while its packetOffset >= sectionPhysicalEnd
\* makes the call fail before any Reader read.
C19_NoFetchPastSectionEnd ==
    /\ (Fetched /\ ULe(pts.sectionPhysicalEnd, pts.fetched.offset)) =>
         /\ ~pts.fetched.called
         /\ pts.fetched.reads = <<>>
         /\ ReturnedFalse
         /\ pts.unpacked = NoUnpack
    /\ (Fetched /\ pts.fetched.called) => ULt(pts.fetched.offset, pts.sectionPhysicalEnd)
    /\ \A k \in DOMAIN pts.pkts : ULt(pts.pkts[k].offset, pts.sectionPhysicalEnd)

\* a state that had read a packet asked for the one after it, which lies at
\* or after the end of the section
C19_Witness ==
    /\ Fetched
    /\ ULe(pts.sectionPhysicalEnd, pts.fetched.offset)
    /\ pts.fetched.offset # 0
    /\ pts.pkts # <<>>
    /\ ReturnedFalse

\* getPacket returned the offset of the next packet to the fetch
FetchAccepted == Fetched /\ pts.fetched.called /\ pts.fetched.next # 0

\* C20: a read state takes its stream slice only from a packet whose
\* streamCount is greater than the state's stream index; if the stream index
\* is >= streamCount of the fetched packet, readE57Points fails and
\* streamOffsets is not indexed beyond streamCount.
C20_SliceOnlyFromPresentStream ==
    FetchAccepted =>
        /\ pts.fetched.indexed \subseteq 0 .. pts.ctx.byteStreamsCount
        /\ IF pts.fetched.stream >= pts.ctx.byteStreamsCount
           THEN /\ ReturnedFalse
                /\ pts.fetched.indexed = {}
                /\ pts.unpacked = NoUnpack
                /\ pts.readStates[pts.fetched.state].bitsConsumed = AllBitsRead
           ELSE /\ pts.fetched.indexed = {pts.fetched.stream, pts.fetched.stream + 1}
                /\ pts.readStates[pts.fetched.state].byteStreamOffset
                     = pts.ctx.byteStreamOffsets[pts.fetched.stream]
                /\ pts.readStates[pts.fetched.state].from = pts.ctx.currentOffset

\* a state of stream 1 was given a packet that has stream 0 only
C20_Witness ==
    /\ FetchAccepted
    /\ pts.fetched.stream = 1
    /\ pts.ctx.byteStreamsCount = 1
    /\ pts.fetched.pk.streamCount = 1
    /\ ReturnedFalse


-----------------------------------------------------------------------------
(* Claims about readE57Points as a whole *)

\* the read of the section header delivered its 32 bytes
HeaderDelivered == pts.headerRead = "true"

\* the address that follows the n payload bytes starting at `start`
PayloadEnd(pageSize, start, n) == PayloadFrom(pageSize, start, n + 1)[n + 1]

\* C21: readE57Points fails when the first byte of the section header is not
\* 1; otherwise sectionPhysicalEnd is the physical offset found by converting
\* the physical offset of the section start to logical, adding
\* sectionLogicalLength and converting back to physical.
C21_SectionIdAndEnd ==
    HeaderDelivered =>
        IF pts.section.sectionId # CompressedVectorSectionId
        THEN /\ ReturnedFalse
             /\ pts.pkts = <<>>
             /\ pts.callbacks = <<>>
        ELSE /\ pts.sectionPhysicalEnd
                  = PayloadEnd(e57.header.pageSize, pts.fileOffset,
                               pts.section.sectionLogicalLength)
             /\ InPayload(e57, pts.sectionPhysicalEnd)

\* a section that starts inside the second page and ends in a later one
C21_Witness ==
    /\ HeaderDelivered
    /\ pts.section.sectionId = CompressedVectorSectionId
    /\ pts.fileOffset > 2 ^ MaxPageShift
    /\ pts.section.sectionLogicalLength > SectionHeaderSize
    /\ pts.sectionPhysicalEnd > pts.fileOffset + pts.section.sectionLogicalLength

\* the file address of the byte that holds item n (from 0) of byte stream
\* `stream`, counted over the packets of the section from packet k on; 0 when
\* the packets read hold no such item
RECURSIVE ItemAddress(_, _, _)
ItemAddress(stream, n, k) ==
    IF k > Len(pts.pkts) THEN 0
    ELSE LET pk == pts.pkts[k].pk
             c  == ItemsIn(pk, stream)
         IN  IF n < c
             THEN PayloadEnd(e57.header.pageSize, pts.pkts[k].offset,
                             DataHeaderSize + 2 * pk.streamCount + SumTo(pk.lens, stream)
                               + (n * PtsBitWidth) \div 8)
             ELSE ItemAddress(stream, n - c, k + 1)

\* the value an item of PtsBitWidth bits stored at a file address decodes to
ItemValue(stream, addr) ==
    [type |-> Component(stream).type, min |-> Component(stream).min,
     bits |-> [j \in Bit64 |-> IF j <= PtsBitWidth THEN <<addr, j - 1>> ELSE 0]]

\* C22: when consumeCallback is invoked for a batch of B points, for every
\* write descriptor i and every k in 0..B-1 the position of item k of
\* descriptor i in the buffer holds the k-th value of that batch decoded from
\* stream writeDesc[i].stream, and no other position was written.
C22_BatchHoldsDecodedValues ==
    IterationSucceeded =>
        \A i \in 0 .. (MaxStreams - 1), k \in 0 .. (MaxCapacity - 1) :
            IF i \in States /\ k < pts.pointsToDo
            THEN LET stream == pts.args.writeDesc[i + 1]
                     addr   == ItemAddress(stream, pts.pointsDone + k, 1)
                 IN  addr # 0 /\ pts.out[i][k] = ItemValue(stream, addr)
            ELSE pts.out[i][k] = Unwritten

\* an error inside readE57Points: the header read failed, the section ended
\* before a packet a state needed, getPacket failed (a page read failed, a
\* CRC did not match, the packet was bad), or the packet lacked the stream
ErrorOccurred ==
    \/ pts.headerRead \in {"false", "crash"}
    \/ Fetched /\ ~pts.fetched.called
    \/ Fetched /\ pts.fetched.called /\ pts.fetched.next = 0
    \/ FetchAccepted /\ StreamMissing(pts.ctx.byteStreamsCount, pts.fetched.stream)

\* of the Reader reads of the last fetch, only the last can have failed
NoReadAfterFailedRead ==
    \A k \in DOMAIN pts.fetched.reads :
        k < Len(pts.fetched.reads) => pts.fetched.reads[k].got > 0

\* C24: after the first error inside readE57Points (failed page read, CRC
\* mismatch, bad packet, missing stream, premature end) the call returns
\* failure, and no further Reader read, packet fetch, unpack or
\* consumeCallback invocation happens in that call.
C24_ErrorEndsCall ==
    ErrorOccurred =>
        /\ ReturnedFalse
        /\ proc = "running"
        /\ pts.unpacked = NoUnpack
        /\ NoReadAfterFailedRead
        /\ ~ENABLED NextPoints

\* readPointsIteration is running
InIteration == pts.pc = "pass"

\* the read states that still lack items of the batch
Lacking == {i \in States : pts.readStates[i].itemsWritten < pts.readStates[i].maxItems}

\* what is left of readPointsIteration: the states that lack items, whether
\* the pass has to be followed by another, and the states the pass has not
\* visited yet
IterationMeasure ==
    (2 * Cardinality(Lacking) + (IF pts.done THEN 0 ELSE 1)) * (Len(pts.args.writeDesc) + 1)
      + (Len(pts.args.writeDesc) - pts.i)

AllPointsDone == pts.pc = "loop" /\ pts.pointsDone >= pts.recordCount

\* C26: once recordCount points have been produced, readE57Points returns
\* success without fetching any further packet: the step after the last
\* callback returns true and leaves the packet context and the packets read
\* as they are, and a packet is only ever fetched for a state that lacks
\* items of a batch of points still to do.
C26_NoFetchAfterLastPoint ==
    [][/\ AllPointsDone =>
             /\ pts'.pc = "returned" /\ pts'.ret = "true"
             /\ pts'.ctx = pts.ctx
             /\ pts'.pkts = pts.pkts
             /\ pts'.fetched = pts.fetched
             /\ pts'.callbacks = pts.callbacks
       /\ (InIteration /\ Fetched' /\ pts'.fetched.state = pts.i) =>
             /\ pts.pointsDone < pts.recordCount
             /\ pts.readStates[pts.i].itemsWritten < pts.readStates[pts.i].maxItems]_vars

\* a call that returned true after two batches while the section goes on
\* after the last packet it read
C26_Witness ==
    /\ pts.pc = "returned" /\ pts.ret = "true"
    /\ pts.recordCount >= 2
    /\ Len(pts.callbacks) >= 2
    /\ pts.pkts # <<>>
    /\ ULt(PacketEnd(Len(pts.pkts)), pts.sectionPhysicalEnd)

\* the step is the turn of a state that called getPacket, and getPacket
\* returned an offset (not 0)
GotPacket ==
    /\ pts.pc = "pass"
    /\ Fetched' /\ pts'.fetched.state = pts.i
    /\ pts'.fetched.called
    /\ proc' = "running"
    /\ pts'.fetched.next # 0

-----------------------------------------------------------------------------
(* SpecPacket: getPacket called on its own.                                *)
(*                                                                         *)
(* pts holds the Context, the packets of the file read so far and the      *)
(* number of calls made; rd the last call: its arguments, the packet the   *)
(* file holds at the offset, what the call returned and the Reader reads   *)
(* it issued.  The first packet read has its type byte, its length, its    *)
(* stream count and its stream lengths drawn freely.                       *)

MaxPacketCalls == 2

PacketTypes == {"Index", "Data", "Empty"}

\* a packet as a file can state it.  (Bytes 4.. of an Index or Empty packet
\* are not looked at.)
AnyPackets ==
    {[type |-> t, size |-> s, streamCount |-> Len(lens), lens |-> lens] :
        t \in PacketTypes, s \in 1 .. MaxPacketSize,
        lens \in UNION {[1 .. c -> 0 .. MaxStreamLen] : c \in 0 .. MaxStreams}}

\* the packets the file may hold at an offset getPacket is called with
FilePacketsAt(offset) ==
    IF Known(offset) # {} THEN {PacketAt(offset)}
    ELSE IF CacheHit(pts.ctx, offset) THEN {ZeroBytes}
    ELSE IF pts.pkts = <<>>
    THEN {pk \in AnyPackets : pk.type = "Data" \/ pk.lens = <<>>}
    ELSE PacketsAt(offset)

\* the offset of the first packet: where a read of the section header ends
FirstPacketOffset == readE57Bytes(e57, 0, SectionHeaderSize, 0, "false").physicalOffset

InitPacket ==
    /\ file = [size     |-> PointsFileBytes,
               sigOk    |-> TRUE,
               header   |-> [pageSize |-> 2 ^ MaxPageShift, xmlPhysicalOffset |-> 0,
                             xmlLogicalLength |-> 0],
               badCrc   |-> {},
               xmlValid |-> TRUE]
    /\ e57 = [ReadyHandle(file.header.pageSize) EXCEPT !.fileSize = PointsFileBytes]
    /\ proc = "running"
    /\ rd = NoCall
    /\ physicalOffset = 0
    /\ chain = Idle
    /\ bits = Idle
    /\ pts = [ctx |-> NewContext, pkts |-> <<>>, calls |-> 0]

\* the call has returned g
PacketCalled(packetOffset, expectedPacketType, pk, g) ==
    /\ rd' = [op |-> "getPacket", packetOffset |-> packetOffset,
              expectedPacketType |-> expectedPacketType, pk |-> pk,
              ret |-> g.ret, reads |-> g.reads]
    /\ pts' = [pts EXCEPT
                 !.ctx = g.ctx,
                 !.pkts = IF g.reads # <<>> /\ Known(packetOffset) = {}
                          THEN Append(@, [offset |-> packetOffset, pk |-> pk])
                          ELSE @,
                 !.calls = @ + 1]
    /\ proc' = IF g.crash THEN "crashed" ELSE proc

\* getPacket(ctx, packetOffset, PacketType::Data), as its one caller
\* (readPointsIteration) calls it, at the first packet, at the packet the
\* Context holds or at the one after it
CallGetPacket ==
    /\ proc = "running"
    /\ pts.calls < MaxPacketCalls
    /\ \E packetOffset \in {FirstPacketOffset, pts.ctx.currentOffset, pts.ctx.nextOffset},
          expectedPacketType \in {"Data"} :
       \E pk \in FilePacketsAt(packetOffset) :
       \E failAt \in IF CacheHit(pts.ctx, packetOffset) THEN {0} ELSE FailAts :
       \E ub \in IF failAt = 0 THEN {"false"} ELSE UbOutcomes :
          PacketCalled(packetOffset, expectedPacketType, pk,
             getPacket(e57, pts.ctx, packetOffset, expectedPacketType, pk, failAt, ub))
    /\ UNCHANGED <<file, e57, physicalOffset, chain, bits>>

NextPacket == CallGetPacket

SpecPacket == InitPacket /\ [][NextPacket]_vars

\* C11: a getPacket call whose offset equals the cached currentOffset
\* returns the cached nextOffset, issues no Reader read and leaves the packet
\* buffer, the packet size and type, the stream count and the stream offsets
\* as they were.
C11_CacheHitReadsNothing ==
    [][(pts'.calls = pts.calls + 1 /\ pts.ctx.currentOffset = rd'.packetOffset)
         => /\ rd'.ret = pts.ctx.nextOffset
            /\ rd'.reads = <<>>
            /\ pts'.ctx.data = pts.ctx.data
            /\ pts'.ctx.size = pts.ctx.size
            /\ pts'.ctx.type = pts.ctx.type
            /\ pts'.ctx.byteStreamsCount = pts.ctx.byteStreamsCount
            /\ pts'.ctx.byteStreamOffsets = pts.ctx.byteStreamOffsets]_vars

\* the second call asked for the packet the first had read, and was answered
\* from the Context
C11_Witness ==
    /\ rd.op = "getPacket"
    /\ pts.calls = 2
    /\ rd.packetOffset = FirstPacketOffset
    /\ pts.ctx.currentOffset = rd.packetOffset
    /\ rd.reads = <<>>
    /\ rd.ret = pts.ctx.nextOffset
    /\ rd.ret # 0


\* the last call returned the offset of the next packet, for a Data packet
AcceptedData == rd.op = "getPacket" /\ rd.ret # 0 /\ rd.pk.type = "Data"

\* a Data packet that breaks one of the rules of its layout
Malformed(pk) ==
    \/ pk.size % 4 # 0
    \/ pk.streamCount = 0
    \/ DataHeaderSize + 2 * pk.streamCount + SumTo(pk.lens, pk.streamCount) > pk.size

\* C17: every Data packet getPacket accepts has a size that is a multiple
\* of 4 and at least one stream, streamOffsets[0] = 6 + 2 * streamCount,
\* streamOffsets[i + 1] = streamOffsets[i] + streamLength[i] for every
\* stream i, and streamOffsets[streamCount] <= packetSize; a Data packet
\* that breaks one of these is rejected.
C17_AcceptedDataWellFormed ==
    /\ AcceptedData =>
         /\ pts.ctx.type = "Data"
         /\ pts.ctx.size = rd.pk.size
         /\ pts.ctx.size % 4 = 0
         /\ pts.ctx.byteStreamsCount = rd.pk.streamCount
         /\ pts.ctx.byteStreamsCount >= 1
         /\ pts.ctx.byteStreamOffsets[0] = DataHeaderSize + 2 * pts.ctx.byteStreamsCount
         /\ \A i \in 0 .. (pts.ctx.byteStreamsCount - 1) :
               pts.ctx.byteStreamOffsets[i + 1]
                  = pts.ctx.byteStreamOffsets[i] + rd.pk.lens[i + 1]
         /\ pts.ctx.byteStreamOffsets[pts.ctx.byteStreamsCount] <= pts.ctx.size
    /\ (rd.op = "getPacket" /\ rd.pk.type = "Data" /\ Malformed(rd.pk)) => rd.ret = 0

\* a Data packet of MaxStreams streams, none of them empty, was read and
\* accepted
C17_Witness ==
    /\ AcceptedData
    /\ rd.reads # <<>>
    /\ pts.ctx.byteStreamsCount = MaxStreams
    /\ \A i \in 1 .. MaxStreams : rd.pk.lens[i] > 0
    /\ pts.ctx.byteStreamOffsets[MaxStreams] > pts.ctx.byteStreamOffsets[0]

\* a Reader read of the last call returned a zero-length view
ReadFailed(call) == \E k \in DOMAIN call.reads : call.reads[k].got = 0

\* the packet header makes getPacket refuse the packet before it reads on
HeaderRejected(call) ==
    call.pk.size < PacketHeaderSize \/ call.pk.type # call.expectedPacketType

\* C30: on a cache miss getPacket reads the 4-byte header, rejects a packet
\* length < 4 and a kind other than the expected one, and only then reads the
\* remaining packetSize - 4 bytes; on every rejection or read failure it
\* returns 0 with currentOffset = nextOffset = 0, and on success it sets
\* currentOffset to the requested offset and nextOffset to the offset just
\* past the packet.
C30_MissReadsHeaderFirst ==
    [][(pts'.calls = pts.calls + 1 /\ pts.ctx.currentOffset # rd'.packetOffset) =>
          /\ rd'.reads # <<>>
          /\ rd'.reads[1].offset
                = (rd'.packetOffset \div e57.page.size) * e57.page.size
          /\ (ReadFailed(rd') \/ HeaderRejected(rd') \/ rd'.ret = 0) =>
                /\ proc' = "running"
                /\ rd'.ret = 0
                /\ pts'.ctx.currentOffset = 0
                /\ pts'.ctx.nextOffset = 0
          /\ (~ReadFailed(rd') /\ HeaderRejected(rd')) =>
                /\ {rd'.reads[k].offset \div e57.page.size : k \in DOMAIN rd'.reads}
                      = PagesOf(e57.page.size, rd'.packetOffset, PacketHeaderSize)
                /\ \A k \in DOMAIN pts.ctx.data :
                      k >= PacketHeaderSize => pts'.ctx.data[k] = pts.ctx.data[k]
          /\ rd'.ret # 0 =>
                /\ pts'.ctx.currentOffset = rd'.packetOffset
                /\ pts'.ctx.nextOffset = rd'.ret
                /\ rd'.ret = PayloadEnd(e57.page.size, rd'.packetOffset, rd'.pk.size)
                /\ \A k \in 0 .. (rd'.pk.size - 1) :
                      pts'.ctx.data[k]
                         = PayloadFrom(e57.page.size, rd'.packetOffset, rd'.pk.size)[k + 1]]_vars

-----------------------------------------------------------------------------
(* SpecWidth: the bit width processByteStream computes for a ScaledInteger *)
(* component.                                                              *)
(*                                                                         *)
(* A 64-bit integer is four 16-bit limbs, least significant first.  The    *)
(* limbs below the top one are in 0 .. LimbBase - 1; the top limb of an    *)
(* int64_t is in -LimbBase/2 .. LimbBase/2 - 1, that of a uint64_t in      *)
(* 0 .. LimbBase - 1, and that of an exact (unwrapped) difference is what  *)
(* the subtraction leaves.  bits holds the component, whether the build    *)
(* has assertions compiled out (ndebug), and the outcome of the call.      *)

LimbBits == WordBits \div 4

LimbBase == 2 ^ LimbBits

\* a - b, exactly: the borrow runs through the limbs, the top limb is left
\* unreduced
SubLimbs(a, b) ==
    LET d1 == a[1] - b[1]
        c1 == IF d1 < 0 THEN 1 ELSE 0
        d2 == a[2] - b[2] - c1
        c2 == IF d2 < 0 THEN 1 ELSE 0
        d3 == a[3] - b[3] - c2
        c3 == IF d3 < 0 THEN 1 ELSE 0
    IN  <<d1 + c1 * LimbBase, d2 + c2 * LimbBase, d3 + c3 * LimbBase, a[4] - b[4] - c3>>

\* the value an int64_t holds after a result that left its range (the
\* build wraps), and the same value when it did not
WrapInt64(v) ==
    [v EXCEPT ![4] = ((v[4] + LimbBase \div 2) % LimbBase) - LimbBase \div 2]

\* static_cast<uint64_t>(diff)
CastUint64(v) == [v EXCEPT ![4] = v[4] % LimbBase]

\* std::bit_width of one limb
RECURSIVE bit_width_limb(_)
bit_width_limb(x) == IF x = 0 THEN 0 ELSE 1 + bit_width_limb(x \div 2)

\* std::bit_width(uint64_t)
bit_width(u) ==
    IF u[4] # 0 THEN 3 * LimbBits + bit_width_limb(u[4])
    ELSE IF u[3] # 0 THEN 2 * LimbBits + bit_width_limb(u[3])
    ELSE IF u[2] # 0 THEN LimbBits + bit_width_limb(u[2])
    ELSE bit_width_limb(u[1])

\* processByteStream up to the computation of w, for a ScaledInteger
\* component: diff = max - min in int64_t, assert(0 <= diff),
\* w = bit_width(uint64_t(diff))
processByteStream(comp, ndebug) ==
    LET diff == WrapInt64(SubLimbs(comp.max, comp.min))
    IN  IF diff[4] < 0 /\ ~ndebug
        THEN [pc |-> "aborted", w |-> 0]
        ELSE [pc |-> "returned", w |-> bit_width(CastUint64(diff))]

\* int64_t values: the ends of the range, the values around 0 and values
\* with carries between the limbs
Int64Values ==
    {<<l1, l2, l3, l4>> : l1 \in {0, 1, LimbBase - 1}, l2 \in {0, LimbBase - 1},
                          l3 \in {0, LimbBase - 1},
                          l4 \in {-(LimbBase \div 2), -1, 0, 1, LimbBase \div 2 - 1}}

InitWidth ==
    /\ \E min \in Int64Values, max \in Int64Values, ndebug \in BOOLEAN :
         bits = [comp   |-> [type |-> "ScaledInteger", min |-> min, max |-> max],
                 ndebug |-> ndebug,
                 pc     |-> "call",
                 w      |-> 0]
    /\ file = Idle /\ e57 = Idle /\ proc = "running" /\ rd = NoCall
    /\ physicalOffset = 0 /\ chain = Idle /\ pts = Idle

ProcessByteStream ==
    /\ bits.pc = "call"
    /\ LET r == processByteStream(bits.comp, bits.ndebug)
       IN  /\ bits' = [bits EXCEPT !.pc = r.pc, !.w = r.w]
           /\ proc' = IF r.pc = "aborted" THEN "crashed" ELSE proc
    /\ UNCHANGED <<file, e57, rd, physicalOffset, chain, pts>>

NextWidth == ProcessByteStream

SpecWidth == InitWidth /\ [][NextWidth]_vars

\* min <= max on int64_t values
LeInt64(a, b) ==
    \/ a[4] < b[4]
    \/ a[4] = b[4] /\ a[3] < b[3]
    \/ a[4] = b[4] /\ a[3] = b[3] /\ a[2] < b[2]
    \/ a[4] = b[4] /\ a[3] = b[3] /\ a[2] = b[2] /\ a[1] <= b[1]

\* d < 2^w for an exact non-negative d of four limbs and w in 0 .. 64
LtPow2(d, w) ==
    \A k \in 1 .. 4 :
        IF (k - 1) * LimbBits >= w THEN d[k] = 0
        ELSE IF k * LimbBits <= w THEN TRUE
        ELSE d[k] < 2 ^ (w - (k - 1) * LimbBits)

\* C16 (as claimed): for all integers min <= max the width w computed for
\* the component satisfies max - min < 2^w and is the smallest such width
\* (0 when max = min).
C16_WidthIsSmallest ==
    (bits.pc # "call" /\ LeInt64(bits.comp.min, bits.comp.max)) =>
        /\ bits.pc = "returned"
        /\ LtPow2(SubLimbs(bits.comp.max, bits.comp.min), bits.w)
        /\ bits.w = 0 \/ ~LtPow2(SubLimbs(bits.comp.max, bits.comp.min), bits.w - 1)
        /\ bits.comp.max = bits.comp.min => bits.w = 0

-----------------------------------------------------------------------------
(* SpecWrite: the writes of consumeBits into the caller's buffer.  bits    *)
(* holds the byte stream, the component, the write descriptor (offset,     *)
(* stride), maxStride (the largest stride among the descriptors of the     *)
(* call), the buffer size, pointCapacity, the unpack state, the bytes of   *)
(* the buffer written so far (written), and whether the bounds assertion   *)
(* of the write loop held.  The build has assertions enabled: a failed     *)
(* assertion ends the process before the write.                            *)

MaxWriteOffset == 5
MaxStride == 5
MaxWriteLen == 8

\* sizeof(float)
FloatSize == 4

\* a faulty variant: every item is written one stride further
WriteAddressOneAhead(writeDesc, item) == writeDesc.offset + writeDesc.stride * (item + 1)

\* char* pptr = ptr + stride * item, with ptr = buffer.data + writeDesc.offset
WriteAddress(writeDesc, item) == writeDesc.offset + writeDesc.stride * item

\* assert(pptr + sizeof(float) <= end), with end = buffer.data + buffer.size
WriteInside(buffer, pptr) == pptr + FloatSize <= buffer.size

\* the writes of one loop of consumeBits for the items item .. last - 1:
\* st = [item, written, ok]
RECURSIVE WriteItems(_, _, _, _)
WriteItems(writeDesc, buffer, last, st) ==
    IF ~(st.item < last) THEN st
    ELSE LET pptr == WriteAddress(writeDesc, st.item)
         IN  IF ~WriteInside(buffer, pptr) THEN [st EXCEPT !.ok = FALSE]
             ELSE WriteItems(writeDesc, buffer, last,
                    [st EXCEPT !.item = @ + 1,
                               !.written = @ \cup (pptr .. (pptr + FloatSize - 1))])

InitWrite ==
    /\ \E type \in ComponentTypes, len \in 0 .. MaxWriteLen,
          offset \in 0 .. MaxWriteOffset, stride \in 0 .. MaxStride,
          pointCapacity \in 1 .. MaxCapacity :
       \E maxStride \in stride .. MaxStride,
          size \in 0 .. (MaxWriteOffset + MaxCapacity * MaxStride) :
         bits = [stream        |-> [pat |-> 0, tail |-> 0, bitsAvailable |-> 8 * len],
                 comp          |-> [type |-> type, bitWidth |-> PtsBitWidth, min |-> 0],
                 writeDesc     |-> [offset |-> offset, stride |-> stride],
                 maxStride     |-> maxStride,
                 buffer        |-> [size |-> size],
                 pointCapacity |-> pointCapacity,
                 itemsWritten  |-> 0,
                 bitsConsumed  |-> 0,
                 maxItems      |-> 0,
                 written       |-> {},
                 asserted      |-> TRUE]
    /\ file = Idle /\ e57 = Idle /\ proc = "running" /\ rd = NoCall
    /\ physicalOffset = 0 /\ chain = Idle /\ pts = Idle

\* consumeBits with its writes: r is what the loop decodes, w what it writes
ConsumeBitsWritten(maxItems, r, w) ==
    IF w.ok
    THEN /\ bits' = [bits EXCEPT !.itemsWritten = r.itemsWritten,
                                 !.bitsConsumed = r.bitsConsumed,
                                 !.maxItems = maxItems,
                                 !.written = w.written]
         /\ proc' = proc
    ELSE /\ bits' = [bits EXCEPT !.itemsWritten = w.item,
                                 !.maxItems = maxItems,
                                 !.written = w.written,
                                 !.asserted = FALSE]
         /\ proc' = "crashed"

\* readPointsIteration calls consumeBits for a state that lacks items of the
\* batch; maxItems is pointsToDo, at most pointCapacity.
CallConsumeBitsWrite ==
    /\ proc = "running"
    /\ bits.bitsConsumed # AllBitsRead
    /\ \E maxItems \in (bits.itemsWritten + 1) .. bits.pointCapacity :
         LET r == consumeBits(bits.stream, bits, maxItems, bits.comp,
                              [i \in 0 .. (MaxCapacity - 1) |-> Unwritten])
         IN  ConsumeBitsWritten(maxItems, r,
                WriteItems(bits.writeDesc, bits.buffer, r.itemsWritten,
                           [item |-> bits.itemsWritten, written |-> bits.written,
                            ok |-> TRUE]))
    /\ UNCHANGED <<file, e57, rd, physicalOffset, chain, pts>>

\* the state's next packet: the slice starts again at bit 0
NextSlice ==
    /\ proc = "running"
    /\ bits.bitsConsumed = AllBitsRead
    /\ bits.itemsWritten < bits.pointCapacity
    /\ \E len \in 1 .. MaxWriteLen :
         bits' = [bits EXCEPT !.bitsConsumed = 0, !.stream.bitsAvailable = 8 * len]
    /\ UNCHANGED <<file, e57, proc, rd, physicalOffset, chain, pts>>

NextWrite == CallConsumeBitsWrite \/ NextSlice

SpecWrite == InitWrite /\ [][NextWrite]_vars

\* the buffer is as large as the contract asks
BufferSized == bits.buffer.size >= bits.pointCapacity * bits.maxStride

\* every byte written lies inside the buffer and the assertion held
WritesInside ==
    /\ bits.asserted
    /\ \A a \in bits.written : a >= 0 /\ a < bits.buffer.size

\* C23 (as claimed): if the buffer has size >= pointCapacity * max(stride),
\* every 4-byte write of the unpacker lies inside the buffer and the
\* assertion pptr + sizeof(float) <= end never fails, for every write
\* descriptor offset and stride.
C23_WritesInsideBuffer ==
    BufferSized => WritesInside

\* C23 (amended): the same, for write descriptors whose value fits in their
\* stride (offset + sizeof(float) <= stride).
C23_WritesInsideBufferFitting ==
    (BufferSized /\ bits.writeDesc.offset + FloatSize <= bits.writeDesc.stride)
        => WritesInside

\* a full batch written at the last positions of a buffer of the least size
C23_Witness ==
    /\ bits.buffer.size = bits.pointCapacity * bits.maxStride
    /\ bits.writeDesc.offset + FloatSize = bits.writeDesc.stride
    /\ bits.writeDesc.stride = bits.maxStride
    /\ bits.pointCapacity > 1
    /\ bits.itemsWritten = bits.pointCapacity
    /\ (bits.buffer.size - 1) \in bits.written

-----------------------------------------------------------------------------
(* SpecLoad: the loads of consumeBits from the packet buffer.  bits holds  *)
(* an accepted Data packet (its size), the slice of one of its streams,    *)
(* the component, the unpack state and the loads made so far.              *)

\* the slices getPacket can hand out for a Data packet of a size: they start
\* after the stream lengths and end inside the packet
SlicesOf(size) ==
    {sl \in [byteStreamOffset : (DataHeaderSize + 2) .. size, len : 0 .. size] :
        sl.byteStreamOffset + sl.len <= size}

InitLoad ==
    /\ \E size \in {4 * n : n \in 2 .. (MaxPacketSize \div 4)},
          type \in {"Integer", "ScaledInteger"}, w \in 0 .. MaxBitWidth :
       \E sl \in SlicesOf(size) :
         bits = [packet       |-> [size |-> size],
                 stream       |-> [data |-> NewContext.data,
                                   byteStreamOffset |-> sl.byteStreamOffset,
                                   bitsAvailable |-> 8 * sl.len],
                 comp         |-> [type |-> type, bitWidth |-> w, min |-> 0],
                 itemsWritten |-> 0,
                 bitsConsumed |-> 0,
                 maxItems     |-> 0,
                 loads        |-> {}]
    /\ file = Idle /\ e57 = Idle /\ proc = "running" /\ rd = NoCall
    /\ physicalOffset = 0 /\ chain = Idle /\ pts = Idle

\* readPointsIteration calls consumeBits on the slice
CallConsumeBitsLoad ==
    /\ bits.bitsConsumed # AllBitsRead
    /\ \E maxItems \in (bits.itemsWritten + 1) .. MaxBatch :
         LET r == consumeBits(bits.stream, bits, maxItems, bits.comp,
                              [i \in 0 .. (MaxBatch - 1) |-> Unwritten])
         IN  bits' = [bits EXCEPT !.itemsWritten = r.itemsWritten,
                                  !.bitsConsumed = r.bitsConsumed,
                                  !.maxItems = maxItems,
                                  !.loads = @ \cup r.loads]
    /\ UNCHANGED <<file, e57, proc, rd, physicalOffset, chain, pts>>

\* the next batch goes on in the slice
NextBatchLoad ==
    /\ bits.bitsConsumed # AllBitsRead
    /\ bits.itemsWritten > 0
    /\ ULe(bits.bitsConsumed, MaxDecoded * MaxBitWidth)
    /\ bits' = [bits EXCEPT !.itemsWritten = 0, !.maxItems = 0]
    /\ UNCHANGED <<file, e57, proc, rd, physicalOffset, chain, pts>>

NextLoad == CallConsumeBitsLoad \/ NextBatchLoad

SpecLoad == InitLoad /\ [][NextLoad]_vars

\* C27: every 8-byte load the integer unpacker performs at packet.data +
\* byteStreamOffset + byteOffset lies entirely inside the packet buffer, for
\* every accepted Data packet, every stream slice and every bitWidth 0..63.
C27_LoadsInsideBuffer ==
    \A l \in bits.loads :
        /\ l.size = WordBits \div 8
        /\ l.at >= 0
        /\ \A a \in l.at .. (l.at + l.size - 1) : a \in DOMAIN bits.stream.data
        /\ l.at + l.size <= MaxPacketSize + 8

\* a load of the 8 bytes that follow a packet of the largest size
C27_Witness ==
    /\ bits.packet.size = MaxPacketSize
    /\ [at |-> MaxPacketSize, size |-> WordBits \div 8] \in bits.loads

-----------------------------------------------------------------------------
(* SpecResume: consumeBits called on a new unpack state with maxItems = a  *)
(* and then again on the state it returned with maxItems = b >= a, beside  *)
(* one call with maxItems = b.  bits.split is what the two calls left,     *)
(* bits.whole what the one call left: how the call ended (ret), the unpack *)
(* state and the values written.  The build has assertions enabled, so a   *)
(* call that fails the "No progress" assertion ends the process ("abort"). *)

\* maxItems is drawn from 0 .. MaxResume
MaxResume == 3

\* What the build does when a call made on a state with bitsConsumed =
\* AllBitsRead passes the test of the loop (the uint32_t sum AllBitsRead + w
\* wraps to w - 1) and loads from byte offset AllBitsRead >> 3 of the
\* stream, far outside the packet buffer: the process dies, or the load
\* delivers whatever lies there.
ResumeOutcomes == {"crash", "load"}

\* the value of an item loaded from outside the packet buffer
OutsideValue == [type |-> "outside"]

\* consumeBits on state runs a loop whose first pass loads from byte
\* offset AllBitsRead >> 3
LoadsOutside(b, state, maxItems, comp) ==
    /\ comp.type \in ComponentTypes
    /\ state.bitsConsumed = AllBitsRead
    /\ state.itemsWritten < maxItems
    /\ ~ULt(b.bitsAvailable, Add32(AllBitsRead, BitWidthOf(comp)))

\* what a call left: the assertion of line 284 ends the process when it fails
Left(r) ==
    [ret          |-> IF r.progress THEN "returned" ELSE "abort",
     itemsWritten |-> r.itemsWritten,
     bitsConsumed |-> r.bitsConsumed,
     out          |-> r.out]

\* One consumeBits call as the process sees it.  When the first pass of the
\* loop loads from outside the buffer and the process lives on, the item is
\* written with what the load delivered and the loop goes on at bit w - 1.
consumeBitsCall(b, state, maxItems, comp, out, ub) ==
    IF LoadsOutside(b, state, maxItems, comp)
    THEN IF ub = "crash"
         THEN [ret |-> "crash", itemsWritten |-> state.itemsWritten,
               bitsConsumed |-> state.bitsConsumed, out |-> out]
         ELSE [Left(consumeBits(b,
                     [itemsWritten |-> state.itemsWritten + 1,
                      bitsConsumed |-> Add32(AllBitsRead, BitWidthOf(comp))],
                     maxItems, comp,
                     [out EXCEPT ![state.itemsWritten] = OutsideValue]))
               EXCEPT !.ret = "returned"]
    ELSE Left(consumeBits(b, state, maxItems, comp, out))

\* the second call is made when the first one returned
consumeBitsAgain(b, first, maxItems, comp, ub) ==
    IF first.ret = "returned"
    THEN consumeBitsCall(b, first, maxItems, comp, first.out, ub)
    ELSE first

NoValues == [i \in 0 .. (MaxResume - 1) |-> Unwritten]

NewUnpackState == [itemsWritten |-> 0, bitsConsumed |-> 0]

InitResume ==
    /\ \E type \in ComponentTypes, w \in 0 .. MaxBitWidth, len \in 0 .. MaxStreamBytes,
          pat \in 0 .. MaxPattern, tail \in {0, 1} :
         /\ (type \notin {"Integer", "ScaledInteger"}) => (w = 0)
         /\ bits = [stream |-> [pat |-> pat, tail |-> tail, bitsAvailable |-> 8 * len],
                    comp   |-> [type |-> type, bitWidth |-> w, min |-> 0],
                    pc     |-> "new",
                    a      |-> 0,
                    b      |-> 0,
                    first  |-> Left(NewUnpackState @@ [out |-> NoValues, progress |-> TRUE]),
                    split  |-> Left(NewUnpackState @@ [out |-> NoValues, progress |-> TRUE]),
                    whole  |-> Left(NewUnpackState @@ [out |-> NoValues, progress |-> TRUE])]
    /\ file = Idle /\ e57 = Idle /\ proc = "running" /\ rd = NoCall
    /\ physicalOffset = 0 /\ chain = Idle /\ pts = Idle

\* consumeBits with maxItems = a, then with maxItems = b on what it returned;
\* and consumeBits with maxItems = b
CallConsumeBitsTwice ==
    /\ bits.pc = "new"
    /\ \E a \in 0 .. MaxResume, ub \in ResumeOutcomes :
       \E b \in a .. MaxResume :
         LET first == consumeBitsCall(bits.stream, NewUnpackState, a, bits.comp, NoValues, ub)
         IN  bits' = [bits EXCEPT
                        !.pc = "done", !.a = a, !.b = b,
                        !.first = first,
                        !.split = consumeBitsAgain(bits.stream, first, b, bits.comp, ub),
                        !.whole = consumeBitsCall(bits.stream, NewUnpackState, b, bits.comp,
                                                  NoValues, ub)]
    /\ UNCHANGED <<file, e57, proc, rd, physicalOffset, chain, pts>>

NextResume == CallConsumeBitsTwice

SpecResume == InitResume /\ [][NextResume]_vars

\* C35 (as claimed): for every stream, component and a <= b, consumeBits with
\* maxItems = a followed by consumeBits with maxItems = b on the returned
\* state leaves the same itemsWritten and bitsConsumed and the same values
\* at the same item indices as one call with maxItems = b.
C35_Resumable ==
    bits.pc = "done" =>
        /\ bits.split.ret = "returned"
        /\ bits.whole.ret = "returned"
        /\ bits.split.itemsWritten = bits.whole.itemsWritten
        /\ bits.split.bitsConsumed = bits.whole.bitsConsumed
        /\ bits.split.out = bits.whole.out

-----------------------------------------------------------------------------
(* SpecCrc: checkPage called for page after page of an open file, as the   *)
(* loop of readE57Bytes calls it.  The function's statics live as long as  *)
(* the process; here the variable bits holds them: first, the table        *)
(* ("zero": as the loader left it, "crc32c": the 256 entries computed),    *)
(* and two counters the code does not have: tableInits, the number of      *)
(* times the loop of lines 97-108 filled the table, and calls.             *)

\* checkPage is followed for MaxCheckCalls calls
MaxCheckCalls == 3

\* static bool first = true; static uint32_t table[256];
NewStatics == [first |-> TRUE, table |-> "zero", tableInits |-> 0, calls |-> 0]

\* Lines 95-109 of checkPage: when first is set the 256 entries are
\* computed and stored.  No line assigns first.
initTable(statics) ==
    IF statics.first
    THEN [statics EXCEPT !.table = "crc32c", !.tableInits = @ + 1]
    ELSE statics

InitCrc ==
    /\ file \in [size     : {FileBytes},
                 sigOk    : {TRUE},
                 header   : [pageSize          : ReadyPageSizes,
                             xmlPhysicalOffset : {0},
                             xmlLogicalLength  : {0}],
                 badCrc   : SUBSET Pages,
                 xmlValid : {TRUE}]
    /\ e57 = ReadyHandle(file.header.pageSize)
    /\ proc = "running"
    /\ rd = NoCall
    /\ physicalOffset = 0
    /\ chain = Idle
    /\ bits = NewStatics
    /\ pts = Idle

\* checkPage(e57, logger, pageBytes) on the bytes of a page of the file
CallCheckPage ==
    /\ proc = "running"
    /\ bits.calls < MaxCheckCalls
    /\ \E page \in Pages :
         LET pageBytes == e57Read(page * e57.page.size, e57.page.size, {})
         IN  /\ rd' = [op |-> "checkPage", page |-> page,
                       ret |-> checkPage(e57, pageBytes),
                       tableBefore |-> bits.table]
             /\ bits' = [initTable(bits) EXCEPT !.calls = @ + 1]
    /\ UNCHANGED <<file, e57, proc, physicalOffset, chain, pts>>

NextCrc == CallCheckPage

SpecCrc == InitCrc /\ [][NextCrc]_vars

\* C37 (as claimed): the CRC-32C table is initialised at most once per
\* process: a checkPage call made after the first one does not write to the
\* table.
C37_TableInitialisedOnce ==
    /\ bits.tableInits <= 1
    /\ bits.calls >= 1 => bits.tableInits = 1

=============================================================================
